---------------------------- MODULE Spec2Model ----------------------------
(***************************************************************************)
(* Model of the quality-assurance checks of maya-quality-assurance.        *)
(*                                                                         *)
(* Part 1: CleanAnimation (checks/animation.py): evaluateAnimCurve, _find  *)
(* and _fix acting on one animation curve of the scene and on the plugs    *)
(* its output drives.                                                      *)
(*                                                                         *)
(* Units.  Values and tangent angles are floats in the program; the model  *)
(* measures both in halves of the tolerance (0.0005), so the default       *)
(* tolerances angle=0.001 and size=0.001 are the integer 2 and a value of  *)
(* 0, 1 or 2 is "equal", "closer than the tolerance" or "not closer than   *)
(* the tolerance" to 0.  Only differences and comparisons of these numbers *)
(* are used by the code.                                                   *)
(*                                                                         *)
(* Indices.  Key indices are 0-based as in the program; At(s, i) reads     *)
(* the element the program writes s[i].                                    *)
(***************************************************************************)
EXTENDS Integers, Sequences, FiniteSets, TLC

\* ------------------------------------------------------------------ bounds
\* most keys of a curve whose keys take every combination of the key data
MaxKeys == 3
\* number of keys of the long curves, whose tangents are all flat
MaxLongKeys == 4
\* most keys of a curve that drives plugs, is referenced or is driven
MaxStaticKeys == 1

\* ------------------------------------------------------- program constants
\* evaluateAnimCurve(self, animCurve, angle=0.001, size=0.001)
DefaultAngle == 2
DefaultSize == 2

\* ------------------------------------------------------------ input domains
Values == 0 .. DefaultSize
RawAngles == {0 - DefaultAngle, 0}
TangentTypes == {"step", "spline"}
Actions == {"delete", "indices", "pass"}
AnimCurve == "animCurve1"
Plugs == <<"pCube1.tx", "pCube1.ty">>

VARIABLES
    exists,      \* the anim curve node exists in the scene
    referenced,  \* the anim curve comes from a referenced file
    driven,      \* the anim curve is a set-driven key (has an input connection)
    keys,        \* the curve's keys in time order: [f, v, ia, oa, tt]
    connected,   \* set of plugs the curve's output is connected to
    locked,      \* set of locked plugs
    plugValue,   \* plug -> value getAttr returns
    errors,      \* CleanAnimation's result of the last discovery pass
    pc,          \* position inside CleanAnimation._fix
    fixAction,   \* action evaluateAnimCurve returned to the running/last _fix
    fixIndices,  \* indices evaluateAnimCurve returned to the running/last _fix
    todo,        \* what is left of "for i in indices[::-1]" / "zip(plugs, attributes)"
    evaluated,   \* the keys _fix evaluated (history)
    cutLog,      \* indices passed to cutKey by the running/last _fix (history)
    written,     \* plugs passed to setAttr by the running/last _fix (history)
    drove,       \* plugs the curve drove when _fix was called (history)
    valueBefore  \* plug -> value when _fix was called (history)

\* Part 2: the render layers of the scene and MismatchedAdjustments._find
\* (checks/renderLayers.py)
VARIABLES
    currentLayer,  \* editRenderLayerGlobals(query=True, currentRenderLayer=True)
    refState,      \* reference node -> "unloaded", "clean" or "edits" (loaded,
                   \* with failed edits that cleanReference removes)
    adjustments,   \* render layer -> its adjustments, in listConnections order
    sgOverrides,   \* render layer -> shading engines on shadingGroupOverride
    hasIterNext,   \* the interpreter's list iterator has a next() method
    gen,           \* the generator MismatchedAdjustments._find() returned
    yielded,       \* what the generator has yielded
    sceneBefore    \* the scene when the discovery pass began (history)

animVars == <<exists, referenced, driven, keys, connected, locked, plugValue,
              errors, pc, fixAction, fixIndices, todo, evaluated, cutLog,
              written, drove, valueBefore>>

layerVars == <<currentLayer, refState, adjustments, sgOverrides, hasIterNext,
               gen, yielded, sceneBefore>>

\* Part 3: the scene the other checks read and write, what their discovery
\* passes returned, and the checks' own fields
VARIABLES
    scene,    \* the nodes, attributes, namespaces and settings of the scene
    discovered,  \* check -> [errors, raised]: what its last discovery
                 \* pass yielded and whether the pass raised
    meta,     \* check -> its _name, _message, _categories, _selectable, _urgency
    lastFix,  \* the last _fix call: check, error, the scene before (history)
    window,   \* the call of ui.window.show and its outcome
    run       \* the runner's last call: its inputs, the results it returned
              \* and the remediation calls it made (history)

checkVars == <<scene, discovered, meta, lastFix, window, run>>

vars == <<animVars, layerVars, checkVars>>

\* ----------------------------------------------------------------- helpers
Abs(x) == IF x < 0 THEN 0 - x ELSE x

At(s, i) == s[i + 1]

Last(s) == s[Len(s)]

\* range(a, b)
Range(a, b) == [j \in 1 .. (IF b > a THEN b - a ELSE 0) |-> a + j - 1]

\* the list as it is, had the code written "for i in indices"
NotReversed(s) == s

\* s[::-1]
Reverse(s) == [j \in 1 .. Len(s) |-> s[Len(s) + 1 - j]]

SeqToSet(s) == {s[j] : j \in 1 .. Len(s)}

\* cmds.cutKey(animCurve, clear=True, index=(i, i)): the key at index i goes,
\* the keys after it move down one index, every other key is left as it is.
CutKey(k, i) ==
    IF i < 0 \/ i >= Len(k) THEN k
    ELSE [j \in 1 .. (Len(k) - 1) |-> IF j <= i THEN k[j] ELSE k[j + 1]]

\* ------------------------------------------------ CleanAnimation.evaluateAnimCurve
inAngles(k) == [j \in 1 .. Len(k) |-> Abs(k[j].ia)]

outAngles(k) == [j \in 1 .. Len(k) |-> Abs(k[j].oa)]

outTangentTypes(k) == [j \in 1 .. Len(k) |-> k[j].tt]

frames(k) == [j \in 1 .. Len(k) |-> k[j].f]

values(k) == [j \in 1 .. Len(k) |-> k[j].v]

\* stepped, had the code looked at the key's own out tangent only
steppedSelf(types, i) == At(types, i) = "step"

\* "is stepped"
stepped(types, i) ==
    /\ At(types, i - 1) = "step"
    /\ At(types, i) = "step"
    /\ At(types, i + 1) = "step"

\* the loop body, had the code left out "and nextDif < size"
AppendsIndexNoNext(ins, outs, types, vals, i, angle, size) ==
    /\ \/ stepped(types, i)
       \/ /\ At(outs, i - 1) < angle
          /\ At(ins, i) < angle
          /\ At(outs, i) < angle
          /\ At(ins, i + 1) < angle
    /\ LET previousDif == Abs(At(vals, i - 1) - At(vals, i))
       IN  \/ stepped(types, i) /\ previousDif < size
           \/ ~stepped(types, i) /\ previousDif < size

\* the body of "for i in range(1, len(frames)-1)": TRUE when i is appended;
\* ins, outs, types, vals are the lists inAngles, outAngles, outTangentTypes
\* and values
AppendsIndex(ins, outs, types, vals, i, angle, size) ==
    /\ \/ stepped(types, i)
       \/ /\ At(outs, i - 1) < angle
          /\ At(ins, i) < angle
          /\ At(outs, i) < angle
          /\ At(ins, i + 1) < angle
    /\ LET previousDif == Abs(At(vals, i - 1) - At(vals, i))
           nextDif == Abs(At(vals, i + 1) - At(vals, i))
       IN  \/ stepped(types, i) /\ previousDif < size
           \/ /\ ~stepped(types, i)
              /\ previousDif < size
              /\ nextDif < size

\* the list "indices" after the loop
Indices(k, angle, size) ==
    LET ins == inAngles(k)
        outs == outAngles(k)
        types == outTangentTypes(k)
        vals == values(k)
    IN  SelectSeq(Range(1, Len(frames(k)) - 1),
                  LAMBDA i : AppendsIndex(ins, outs, types, vals, i, angle, size))

\* the first test, had the code written "len(frames) < 1"
OnlyOneKeyStrict(k) == Len(frames(k)) < 1

\* "remove curves with only 1 key": len(frames) <= 1
OnlyOneKey(k) == Len(frames(k)) <= 1

\* the second test, had the code counted the keys without the candidates
SameKeysUnpruned(k, indices, angle, size) ==
    /\ Len(frames(k)) = 2
    /\ Abs(At(values(k), 0) - Last(values(k))) < size
    /\ At(outAngles(k), 0) < angle
    /\ Last(inAngles(k)) < angle

\* the second test, had the code left out "and inAngles[-1] < angle"
SameKeysNoInAngle(k, indices, angle, size) ==
    /\ Len(frames(k)) - Len(indices) = 2
    /\ Abs(At(values(k), 0) - Last(values(k))) < size
    /\ At(outAngles(k), 0) < angle

\* "remove curves with keys that are the same"
SameKeys(k, indices, angle, size) ==
    /\ Len(frames(k)) - Len(indices) = 2
    /\ Abs(At(values(k), 0) - Last(values(k))) < size
    /\ At(outAngles(k), 0) < angle
    /\ Last(inAngles(k)) < angle

\* the returned tuple (action, indices); None is written <<>>
evaluateAnimCurve(k, angle, size) ==
    LET indices == Indices(k, angle, size) IN
    IF OnlyOneKey(k)
    THEN [action |-> "delete", indices |-> <<>>]
    ELSE IF SameKeys(k, indices, angle, size)
    THEN [action |-> "delete", indices |-> <<>>]
    ELSE IF indices # <<>>
    THEN [action |-> "indices", indices |-> indices]
    ELSE [action |-> "pass", indices |-> <<>>]

Evaluate(k) == evaluateAnimCurve(k, DefaultAngle, DefaultSize)

\* ------------------------------------------------------------- the scene
\* A key: value, in and out tangent angle as keyTangent returns them, and
\* the type of the out tangent.
KeyData == [v : Values, ia : RawAngles, oa : RawAngles, tt : TangentTypes]

\* keys whose in and out tangent are unified (Maya's tangent lock)
UnifiedKeys == {d \in KeyData : d.ia = d.oa}

\* keys with a broken or unified tangent that is not stepped
SplineKeys == {d \in KeyData : d.tt = "spline"}

\* keys with flat tangents
FlatKeys == {d \in KeyData : d.ia = 0 /\ d.oa = 0}

\* the curves of n keys of the kind D: key j sits on frame j - 1
CurvesOfLen(n, D) ==
    {[j \in 1 .. n |-> [f |-> j - 1, v |-> d[j].v, ia |-> d[j].ia,
                        oa |-> d[j].oa, tt |-> d[j].tt]] :
        d \in [1 .. n -> D]}

PlugSet == SeqToSet(Plugs)

\* self.ls(type="animCurve")
ls == IF exists THEN <<AnimCurve>> ELSE <<>>

\* reference.removeReferenced(nodes)
removeReferenced(nodes) == SelectSeq(nodes, LAMBDA n : ~referenced)

\* animation.removeDrivenAnimCurves(animCurves)
removeDrivenAnimCurves(nodes) == SelectSeq(nodes, LAMBDA n : ~driven)

\* cmds.listConnections("{0}.output".format(animCurve), p=True) or []
listConnections == SelectSeq(Plugs, LAMBDA p : p \in connected)

\* [cmds.getAttr(p) for p in plugs]
attributes(plugs) == [j \in 1 .. Len(plugs) |-> plugValue[plugs[j]]]

\* zip(plugs, attributes)
zip(plugs, attrs) == [j \in 1 .. Len(plugs) |-> [p |-> plugs[j], a |-> attrs[j]]]

\* the lock test, had the code left it out
SkipsNoPlug(p) == FALSE

\* "if cmds.getAttr(p, lock=True): continue"
SkipsPlug(p) == p \in locked

\* ------------------------------------------------------ CleanAnimation._find
\* the curves the generator yields, in order
CleanAnimationFind ==
    SelectSeq(removeDrivenAnimCurves(removeReferenced(ls)),
              LAMBDA c : Evaluate(keys).action \in {"delete", "indices"})

Find ==
    /\ UNCHANGED <<layerVars, checkVars>>
    /\ pc = "idle"
    /\ errors' = CleanAnimationFind
    /\ UNCHANGED <<exists, referenced, driven, keys, connected, locked,
                   plugValue, pc, fixAction, fixIndices, todo, evaluated,
                   cutLog, written, drove, valueBefore>>

\* ------------------------------------------------------- CleanAnimation._fix
\* _fix(animCurve) up to the first scene mutation: evaluateAnimCurve and, for
\* "delete", the capture of the plugs and their values
FixStart ==
    /\ UNCHANGED <<layerVars, checkVars>>
    /\ pc = "idle"
    /\ exists
    /\ AnimCurve \in SeqToSet(errors)
    /\ LET r == Evaluate(keys) IN
       /\ fixAction' = r.action
       /\ fixIndices' = r.indices
       /\ evaluated' = keys
       /\ cutLog' = <<>>
       /\ written' = {}
       /\ drove' = connected
       /\ valueBefore' = plugValue
       /\ \/ /\ r.action = "delete"
             /\ todo' = zip(listConnections, attributes(listConnections))
             /\ pc' = "delete"
          \/ /\ r.action = "indices"
             /\ todo' = Reverse(r.indices)
             /\ pc' = "cut"
          \/ /\ r.action = "pass"
             /\ todo' = <<>>
             /\ pc' = "idle"
    /\ UNCHANGED <<exists, referenced, driven, keys, connected, locked,
                   plugValue, errors>>

\* one pass of "for i in indices[::-1]: cmds.cutKey(...)"
FixCut ==
    /\ UNCHANGED <<layerVars, checkVars>>
    /\ pc = "cut"
    /\ keys' = CutKey(keys, Head(todo))
    /\ cutLog' = Append(cutLog, Head(todo))
    /\ todo' = Tail(todo)
    /\ pc' = IF Tail(todo) = <<>> THEN "idle" ELSE "cut"
    /\ UNCHANGED <<exists, referenced, driven, connected, locked, plugValue,
                   errors, fixAction, fixIndices, evaluated, written, drove,
                   valueBefore>>

\* cmds.delete(animCurve): the node and its connections go; what a plug that
\* was driven by the curve holds afterwards is up to the host
FixDelete ==
    /\ UNCHANGED <<layerVars, checkVars>>
    /\ pc = "delete"
    /\ exists' = FALSE
    /\ keys' = <<>>
    /\ connected' = {}
    /\ \E pv \in [PlugSet -> Values] :
          /\ \A p \in PlugSet \ connected : pv[p] = plugValue[p]
          /\ plugValue' = pv
    /\ pc' = IF todo = <<>> THEN "idle" ELSE "reset"
    /\ UNCHANGED <<referenced, driven, locked, errors, fixAction, fixIndices,
                   todo, evaluated, cutLog, written, drove, valueBefore>>

\* one pass of "for p, a in zip(plugs, attributes)"
FixReset ==
    /\ UNCHANGED <<layerVars, checkVars>>
    /\ pc = "reset"
    /\ LET p == Head(todo).p
           a == Head(todo).a
       IN  IF SkipsPlug(p)
           THEN UNCHANGED <<plugValue, written>>
           ELSE /\ plugValue' = [plugValue EXCEPT ![p] = a]
                /\ written' = written \cup {p}
    /\ todo' = Tail(todo)
    /\ pc' = IF Tail(todo) = <<>> THEN "idle" ELSE "reset"
    /\ UNCHANGED <<exists, referenced, driven, keys, connected, locked,
                   errors, fixAction, fixIndices, evaluated, cutLog, drove,
                   valueBefore>>

\* ------------------------------------------------ the checks and their fields
\* the checks of the model, by class name
Checks ==
    {"NotConnectedAnimation", "ComponentAnimation", "CleanAnimation",
     "JointsHidden", "NoNamespace", "UVSetMap1", "TransformSuffix",
     "ControlSetsArnold", "DuplicateAdjustments", "SingleCamera",
     "Subdivision", "FreezeTransforms", "ValidateDisplacement"}

\* A check's fields when its constructor returns.  "base" stands for the
\* value QualityAssurance.__init__ gave a field the constructor of the
\* subclass does not assign.
Constructed(check) ==
    CASE check = "NotConnectedAnimation" ->
           [name |-> "Unused Animation",
            message |-> "{0} animation curve(s) are unused",
            categories |-> <<"Animation">>, selectable |-> TRUE,
            urgency |-> "True"]
      [] check = "ComponentAnimation" ->
           [name |-> "Component Animation",
            message |-> "{0} animation curve(s) are connected to a shape",
            categories |-> <<"Animation">>, selectable |-> TRUE,
            urgency |-> "base"]
      [] check = "CleanAnimation" ->
           [name |-> "Clean Animation",
            message |-> "{0} animation curve(s) have unnecessary key(s)",
            categories |-> <<"Animation">>, selectable |-> TRUE,
            urgency |-> "True"]
      [] check = "JointsHidden" ->
           [name |-> "Joints Hidden", message |-> "{0} joints not hidden",
            categories |-> <<"Animation", "Rigging">>, selectable |-> TRUE,
            urgency |-> "base"]
      [] check = "NoNamespace" ->
           [name |-> "No Namespaces", message |-> "{0} Namespaces found",
            categories |-> <<"Modelling">>, selectable |-> FALSE,
            urgency |-> "base"]
      [] check = "UVSetMap1" ->
           [name |-> "has UV set map1",
            message |-> "{0} mesh has map1 renamed and must be fixed",
            categories |-> <<"Modelling">>, selectable |-> FALSE,
            urgency |-> "base"]
      [] check = "TransformSuffix" ->
           [name |-> "Transform Suffix Naming Convention",
            message |-> "{0} Transforms with wrong naming",
            categories |-> <<"Modelling">>, selectable |-> TRUE,
            urgency |-> "base"]
      [] check = "ControlSetsArnold" ->
           [name |-> "Control Sets Arnold Attributes",
            message |-> "{0} sets with curve attributes",
            categories |-> <<"Rigging">>, selectable |-> FALSE,
            urgency |-> "base"]
      [] check = "DuplicateAdjustments" ->
           [name |-> "Duplicate Adjustments",
            message |-> "{0} duplicate renderlayer adjustment(s)",
            categories |-> <<"Render Layers">>, selectable |-> FALSE,
            urgency |-> "base"]
      [] check = "SingleCamera" ->
           [name |-> "Render Single Camera",
            message |-> "{0} renderable cameras per layer",
            categories |-> <<"Render Layers">>, selectable |-> FALSE,
            urgency |-> "1"]
      [] check = "Subdivision" ->
           [name |-> "Not Ignoring Subdivision",
            message |-> "ignore subdiv set to {0} should be 0 ",
            categories |-> <<"Render Layers">>, selectable |-> TRUE,
            urgency |-> "base"]
      [] check = "FreezeTransforms" ->
           [name |-> "Freeze Transforms",
            message |-> "{0} transform(s) are not frozen",
            categories |-> <<"Modelling">>, selectable |-> TRUE,
            urgency |-> "base"]
      [] check = "ValidateDisplacement" ->
           [name |-> "Displacement not ignored in Arnold Render",
            message |-> "",
            categories |-> <<"Render Layers">>, selectable |-> TRUE,
            urgency |-> "base"]

\* A scene with nothing in it for the checks of part 3 to look at.
\*   referencedNodes: the nodes that come from a referenced file
\*   dag:             transform or joint -> its visibility, overrideEnabled
\*                    and overrideVisibility attributes
\*   namespaces:      the namespaces of the scene besides UI and shared
\*   nodeNamespace:   node -> the namespace it is in ("" is the root)
\*   uvSets:          mesh -> its UV sets as [index, name], in polyUVSet order
\*   pnts:            mesh -> the anim curves connected to its pnts plug
\*   sets:            object set -> its members
\*   curveAttrs:      nurbsCurve shape -> (Arnold attribute that exists on it
\*                    -> it is keyable)
\*   curveOf:         nurbsCurve shape -> the transform it hangs under
\*   cameras:         the cameras that are not start-up cameras
\*   renderer:        defaultRenderGlobals.currentRenderer
\*   filePrefix:      the image file prefix of the render settings
\*   ignoreSubdivision: defaultArnoldRenderOptions.ignoreSubdivision
\*   ignoreDisplacement: defaultArnoldRenderOptions.ignoreDisplacement
\*   transforms:      transform -> [tail, shape, selected]
\*   attrs:           transform -> (translate, rotate or scale attribute
\*                    -> its value)
\*   outAdjustments:  render layer -> the connections of its outAdjustments
EmptyScene ==
    [referencedNodes |-> {},
     dag |-> [n \in {} |-> 0],
     namespaces |-> {},
     nodeNamespace |-> [n \in {} |-> ""],
     uvSets |-> [n \in {} |-> <<>>],
     pnts |-> [n \in {} |-> <<>>],
     sets |-> [n \in {} |-> <<>>],
     curveAttrs |-> [n \in {} |-> 0],
     curveOf |-> [n \in {} |-> ""],
     cameras |-> <<"renderCam">>,
     renderer |-> "arnold",
     filePrefix |-> "",
     ignoreSubdivision |-> 0,
     ignoreDisplacement |-> 0,
     transforms |-> [n \in {} |-> 0],
     attrs |-> [n \in {} |-> 0],
     outAdjustments |-> [n \in {} |-> <<>>]]

\* no discovery pass of the check has run
NoResult == [errors |-> <<>>, raised |-> FALSE]

\* no _fix has been called
NoFix == [check |-> "none", error |-> "", errors |-> <<>>, before |-> <<>>,
          raised |-> FALSE]

\* ui.window.show has not been called
NoWindow == [environ |-> "unset", collection |-> "MDL", outcome |-> "no call"]

\* the runner has not been called
NoRun ==
    [op |-> "none", checks |-> <<>>, selection |-> <<>>, results |-> <<>>,
     outstanding |-> <<>>, calls |-> <<>>, touched |-> <<>>]

\* the checks as constructed, before any discovery pass
InitChecks ==
    /\ discovered = [c \in Checks |-> NoResult]
    /\ meta = [c \in Checks |-> Constructed(c)]
    /\ lastFix = NoFix
    /\ run = NoRun

\* nothing in the scene for the checks of part 3, no window
InitNoChecks ==
    /\ scene = EmptyScene
    /\ InitChecks
    /\ window = NoWindow

\* ------------------------------------------------------------ specification
\* a curve of the scene that is the scene's own and drives nothing: a short
\* one of unified keys or of keys that are not stepped, or a long flat one
InitKeyed ==
    /\ referenced = FALSE
    /\ driven = FALSE
    /\ \/ \E n \in 0 .. MaxKeys : keys \in CurvesOfLen(n, UnifiedKeys)
       \/ \E n \in 0 .. MaxKeys : keys \in CurvesOfLen(n, SplineKeys)
       \/ keys \in CurvesOfLen(MaxLongKeys, FlatKeys)
    /\ connected = {}
    /\ locked = {}
    /\ plugValue = [p \in PlugSet |-> 0]

\* a short curve driving some plugs
InitStatic ==
    /\ referenced = FALSE
    /\ driven = FALSE
    /\ \E n \in 0 .. MaxStaticKeys : keys \in CurvesOfLen(n, UnifiedKeys)
    /\ connected \in SUBSET PlugSet
    /\ locked \in SUBSET PlugSet
    /\ plugValue \in [PlugSet -> Values]
    /\ \A p \in PlugSet \ connected : plugValue[p] = 0

\* a short curve that is referenced or driven by a set-driven key
InitForeign ==
    /\ referenced \in BOOLEAN
    /\ driven \in BOOLEAN
    /\ referenced \/ driven
    /\ \E n \in 0 .. MaxStaticKeys : keys \in CurvesOfLen(n, UnifiedKeys)
    /\ connected = {}
    /\ locked = {}
    /\ plugValue = [p \in PlugSet |-> 0]

\* no discovery pass of the render-layer checks is under way
NoGenerator ==
    [pc |-> "none", renderlayers |-> <<>>, currentlayer |-> "", li |-> 0,
     ai |-> 0]

\* a scene without render layers of its own and without references
InitNoLayers ==
    /\ currentLayer = "defaultRenderLayer"
    /\ refState = [r \in {} |-> "unloaded"]
    /\ adjustments = [l \in {} |-> <<>>]
    /\ sgOverrides = [l \in {} |-> <<>>]
    /\ hasIterNext = TRUE
    /\ gen = NoGenerator
    /\ yielded = <<>>
    /\ sceneBefore = <<>>

Init ==
    /\ exists = TRUE
    /\ InitKeyed \/ InitStatic \/ InitForeign
    /\ errors = <<>>
    /\ pc = "idle"
    /\ fixAction = "none"
    /\ fixIndices = <<>>
    /\ todo = <<>>
    /\ evaluated = <<>>
    /\ cutLog = <<>>
    /\ written = {}
    /\ drove = {}
    /\ valueBefore = plugValue
    /\ InitNoLayers
    /\ InitNoChecks

Next ==
    \/ Find
    \/ FixStart
    \/ FixCut
    \/ FixDelete
    \/ FixReset

Spec == Init /\ [][Next]_vars

\* ======================================================================
\* Part 2: MismatchedAdjustments._find (checks/renderLayers.py)
\* ======================================================================
\* self.ls(type="renderLayer")
RenderLayers == <<"defaultRenderLayer", "layer1", "layer2">>

\* cmds.ls(type="reference")
References == <<"sharedReferenceNode", "propRN">>

ShadingEngines == {"SG1", "SG2"}

\* cmds.nodeType(node)
nodeType(node) ==
    IF node \in ShadingEngines THEN "shadingEngine" ELSE "renderLayer"

\* renderlayer.count("defaultRenderLayer") and
\* reference.count("sharedReferenceNode")
IsDefaultLayer(renderlayer) == renderlayer = "defaultRenderLayer"

IsSharedReference(reference) == reference = "sharedReferenceNode"

\* An adjustment of a render layer, by what connectionInfo tells of it:
\* dsg: the nodes of the destinations of its outValue plug (dsgPlugs);
\* og: its scene plug is an objectGroups plug; scn: the nodes of the
\* destinations of the scene plug (scnDstPlugs); parent: the nodes of the
\* destinations of the scene plug's parent (scnParentDstPlugs).
AdjustmentShapes ==
    {[dsg |-> d, og |-> c.og, scn |-> c.scn, parent |-> c.parent] :
        d \in {<<>>, <<"SG1">>, <<"defaultRenderLayer">>},
        c \in {[og |-> FALSE, scn |-> <<>>, parent |-> <<>>],
               [og |-> FALSE, scn |-> <<"SG1">>, parent |-> <<>>],
               [og |-> FALSE, scn |-> <<"defaultRenderLayer", "SG2">>,
                parent |-> <<>>],
               [og |-> TRUE, scn |-> <<>>, parent |-> <<"SG2">>],
               [og |-> TRUE, scn |-> <<>>, parent |-> <<"SG2", "SG1">>]}}

\* most adjustments of a render layer
MaxAdjustments == 1

AdjustmentLists ==
    UNION {[1 .. n -> AdjustmentShapes] : n \in 0 .. MaxAdjustments}

\* the scene as the render-layer checks see it
Scene ==
    [currentLayer |-> currentLayer, refState |-> refState,
     adjustments |-> adjustments, sgOverrides |-> sgOverrides]

\* renderlayers.remove(currentlayer); renderlayers.insert(0, currentlayer)
CurrentFirst(renderlayers, currentlayer) ==
    <<currentlayer>> \o SelectSeq(renderlayers, LAMBDA l : l # currentlayer)

\* the list [conSource, conDestination, delSource, delDestination] yielded
\* for a wrong shading group; adj names the adjustment, <<node, attr>> a plug
WrongGroup(adj, node, dsgPlugs) ==
    <<<<adj, "outValue">>, <<node, "dagSetMembers">>,
      <<adj, "outValue">>, <<dsgPlugs[1], "dagSetMembers">>>>

\* the second list yielded in the loop over the parent's destinations
WrongParent(adj, node) ==
    <<<<adj, "scnPlug">>, <<node, "dagSetMembers">>,
      <<adj, "scnPlugParent">>, <<node, "dagSetMembers">>>>

\* "find error in parent destination plugs": what the loop yields
RECURSIVE ParentErrors(_, _, _, _)
ParentErrors(adj, SG, dsgPlugs, scnParentDstPlugs) ==
    IF scnParentDstPlugs = <<>> THEN <<>>
    ELSE LET node == Head(scnParentDstPlugs)
             here == IF nodeType(node) = "shadingEngine"
                     THEN (IF SG # node
                           THEN <<WrongGroup(adj, node, dsgPlugs)>>
                           ELSE <<>>) \o <<WrongParent(adj, node)>>
                     ELSE <<>>
         IN  here \o ParentErrors(adj, SG, dsgPlugs, Tail(scnParentDstPlugs))

\* "find error in destination plugs": the first shading engine among the
\* destinations, <<>> when there is none
FirstShadingEngine(scnDstPlugs) ==
    LET found == SelectSeq(scnDstPlugs,
                           LAMBDA n : nodeType(n) = "shadingEngine")
    IN  IF found = <<>> THEN <<>> ELSE <<Head(found)>>

\* one pass of "for adjPlug in connectionsIter": what it yields
AdjustmentErrors(adj, shape, overrides) ==
    LET dsgPlugs == shape.dsg IN
    IF dsgPlugs = <<>> THEN <<>>
    ELSE LET SG == IF overrides # <<>> THEN overrides[1] ELSE dsgPlugs[1] IN
         IF nodeType(SG) # "shadingEngine" THEN <<>>
         ELSE LET first == FirstShadingEngine(shape.scn) IN
              IF first # <<>>
              THEN IF SG # first[1]
                   THEN <<WrongGroup(adj, first[1], dsgPlugs)>>
                   ELSE <<>>
              ELSE ParentErrors(adj, SG, dsgPlugs,
                                IF shape.og THEN shape.parent ELSE <<>>)

\* where the generator goes on after adjustment ai of layer li
AfterAdjustment(g) ==
    IF g.ai < Len(adjustments[g.renderlayers[g.li]])
    THEN [g EXCEPT !.pc = "adjustment", !.ai = g.ai + 1]
    ELSE [g EXCEPT !.pc = "layer", !.li = g.li + 1, !.ai = 0]

\* cmds.file(cleanReference=reference) for every loaded reference but the
\* shared reference node: its failed edits are removed
CleanReferences ==
    [r \in DOMAIN refState |->
        IF IsSharedReference(r) \/ refState[r] = "unloaded"
        THEN refState[r] ELSE "clean"]

\* The first next() on a new generator, up to the loop over the layers:
\* "clean references", the list of layers with the current one first.
MismatchedStart ==
    /\ gen.pc \in {"none", "done", "raised", "closed"}
    /\ sceneBefore' = Scene
    /\ yielded' = <<>>
    /\ refState' = CleanReferences
    /\ gen' = [pc |-> "layer",
               renderlayers |-> CurrentFirst(RenderLayers, currentLayer),
               currentlayer |-> currentLayer, li |-> 1, ai |-> 0]
    /\ UNCHANGED <<currentLayer, adjustments, sgOverrides, hasIterNext>>
    /\ UNCHANGED <<animVars, checkVars>>

\* "for renderlayer in renderlayers", up to the loop over the connections:
\* a default layer is skipped, any other layer is made the current one
MismatchedLayer ==
    /\ gen.pc = "layer"
    /\ gen.li <= Len(gen.renderlayers)
    /\ LET renderlayer == gen.renderlayers[gen.li] IN
       IF IsDefaultLayer(renderlayer)
       THEN /\ gen' = [gen EXCEPT !.li = gen.li + 1]
            /\ UNCHANGED currentLayer
       ELSE /\ currentLayer' = renderlayer
            /\ gen' = IF adjustments[renderlayer] = <<>>
                      THEN [gen EXCEPT !.li = gen.li + 1]
                      ELSE [gen EXCEPT !.pc = "adjustment", !.ai = 1]
    /\ UNCHANGED <<refState, adjustments, sgOverrides, hasIterNext, yielded,
                   sceneBefore>>
    /\ UNCHANGED <<animVars, checkVars>>

\* one pass of "for adjPlug in connectionsIter": connectionsIter.next()
\* raises AttributeError where list iterators have no next(); otherwise the
\* pass yields its errors and the generator is suspended at the last yield,
\* or goes on when there is none
MismatchedAdjustment ==
    /\ gen.pc = "adjustment"
    /\ LET renderlayer == gen.renderlayers[gen.li]
           errs == AdjustmentErrors(<<renderlayer, gen.ai>>,
                                    adjustments[renderlayer][gen.ai],
                                    sgOverrides[renderlayer])
       IN  IF ~hasIterNext
           THEN /\ gen' = [gen EXCEPT !.pc = "raised"]
                /\ UNCHANGED yielded
           ELSE /\ yielded' = yielded \o errs
                /\ gen' = IF errs = <<>> THEN AfterAdjustment(gen)
                          ELSE [gen EXCEPT !.pc = "yield"]
    /\ UNCHANGED <<currentLayer, refState, adjustments, sgOverrides,
                   hasIterNext, sceneBefore>>
    /\ UNCHANGED <<animVars, checkVars>>

\* next() on the generator suspended at a yield
MismatchedResume ==
    /\ gen.pc = "yield"
    /\ gen' = AfterAdjustment(gen)
    /\ UNCHANGED <<currentLayer, refState, adjustments, sgOverrides,
                   hasIterNext, yielded, sceneBefore>>
    /\ UNCHANGED <<animVars, checkVars>>

\* the consumer drops the generator suspended at a yield: nothing after the
\* yield runs
MismatchedClose ==
    /\ gen.pc = "yield"
    /\ gen' = [gen EXCEPT !.pc = "closed"]
    /\ UNCHANGED <<currentLayer, refState, adjustments, sgOverrides,
                   hasIterNext, yielded, sceneBefore>>
    /\ UNCHANGED <<animVars, checkVars>>

\* after the loop: cmds.editRenderLayerGlobals(currentRenderLayer=currentlayer)
MismatchedFinish ==
    /\ gen.pc = "layer"
    /\ gen.li > Len(gen.renderlayers)
    /\ currentLayer' = gen.currentlayer
    /\ gen' = [gen EXCEPT !.pc = "done"]
    /\ UNCHANGED <<refState, adjustments, sgOverrides, hasIterNext, yielded,
                   sceneBefore>>
    /\ UNCHANGED <<animVars, checkVars>>

\* a scene with render layers and a reference; no animation curve
InitLayers ==
    /\ currentLayer \in SeqToSet(RenderLayers)
    /\ refState \in [SeqToSet(References) -> {"unloaded", "clean", "edits"}]
    /\ refState["sharedReferenceNode"] = "clean"
    /\ adjustments \in [SeqToSet(RenderLayers) -> AdjustmentLists]
    /\ adjustments["defaultRenderLayer"] = <<>>
    /\ sgOverrides \in [SeqToSet(RenderLayers) -> {<<>>, <<"SG2">>}]
    /\ sgOverrides["defaultRenderLayer"] = <<>>
    /\ hasIterNext \in BOOLEAN
    /\ gen = NoGenerator
    /\ yielded = <<>>
    /\ sceneBefore = <<>>
    /\ exists = FALSE
    /\ referenced = FALSE
    /\ driven = FALSE
    /\ keys = <<>>
    /\ connected = {}
    /\ locked = {}
    /\ plugValue = [p \in PlugSet |-> 0]
    /\ errors = <<>>
    /\ pc = "idle"
    /\ fixAction = "none"
    /\ fixIndices = <<>>
    /\ todo = <<>>
    /\ evaluated = <<>>
    /\ cutLog = <<>>
    /\ written = {}
    /\ drove = {}
    /\ valueBefore = plugValue
    /\ InitNoChecks

NextLayers ==
    \/ MismatchedStart
    \/ MismatchedLayer
    \/ MismatchedAdjustment
    \/ MismatchedResume
    \/ MismatchedClose
    \/ MismatchedFinish

SpecLayers == InitLayers /\ [][NextLayers]_vars

\* ======================================================================
\* Part 3: the other checks (checks/animation.py, modelling.py, rigging.py,
\* renderLayers.py), each discovery pass run to its end in one step
\* ======================================================================
\* reference.removeReferenced(nodes) on a list of nodes of the scene s
removeReferencedNodes(nodes, s) ==
    SelectSeq(nodes, LAMBDA n : n \notin s.referencedNodes)

\* s with what a discovery pass of check c returned
Discovered(c, errs, raised) ==
    [discovered EXCEPT ![c] = [errors |-> errs, raised |-> raised]]

\* the record of a _fix call
FixCall(c, err, raised) ==
    [check |-> c, error |-> err, errors |-> discovered[c].errors,
     before |-> scene, raised |-> raised]

\* ------------------------------------------------------------- JointsHidden
\* the transforms and joints of the scene, each after its parent
DagNodes == <<"|rig", "|rig|hip", "|rig|hip|knee">>

\* cmds.ls(type='joint', long=True)
lsJoints(s) ==
    SelectSeq(<<"|rig|hip", "|rig|hip|knee">>, LAMBDA n : n \in DOMAIN s.dag)

\* cmds.listRelatives(node, parent=True, fullPath=True)
listRelativesParent(node) ==
    CASE node = "|rig|hip" -> <<"|rig">>
      [] node = "|rig|hip|knee" -> <<"|rig|hip">>
      [] OTHER -> <<>>

\* cmds.objectType(node, isAType=type) for the nodes of DagNodes
isAType(node, type) == type = "dagNode"

\* JointsHidden.is_visible
RECURSIVE is_visible(_, _, _, _, _, _)
is_visible(s, node, displayLayer, intermediateObject, parentHidden, visibility) ==
    IF node \notin DOMAIN s.dag THEN FALSE
    ELSE IF ~isAType(node, "dagNode") THEN FALSE
    ELSE IF visibility /\ ~s.dag[node].visibility THEN FALSE
    ELSE IF intermediateObject /\ isAType(node, "shape")
            /\ s.dag[node].intermediateObject THEN FALSE
    ELSE IF displayLayer /\ s.dag[node].overrideEnabled
            /\ s.dag[node].overrideVisibility THEN FALSE
    ELSE IF parentHidden /\ listRelativesParent(node) # <<>>
            /\ ~is_visible(s, listRelativesParent(node)[1], displayLayer,
                           FALSE, parentHidden, visibility) THEN FALSE
    ELSE TRUE

\* JointsHidden._find: the joints it yields
JointsHiddenErrors(s) ==
    SelectSeq(lsJoints(s),
              LAMBDA j : is_visible(s, j, TRUE, TRUE, TRUE, TRUE))

JointsHiddenFind ==
    /\ discovered' = Discovered("JointsHidden", JointsHiddenErrors(scene), FALSE)
    /\ UNCHANGED <<scene, meta, lastFix, window>>
    /\ UNCHANGED <<animVars, layerVars, run>>

\* maya.mel.eval("HideJoints"): every joint of the scene is hidden
HideJoints(s) ==
    [s EXCEPT !.dag = [n \in DOMAIN s.dag |->
        IF n \in SeqToSet(lsJoints(s))
        THEN [s.dag[n] EXCEPT !.visibility = FALSE]
        ELSE s.dag[n]]]

\* JointsHidden._fix(err)
JointsHiddenFix ==
    /\ \E err \in SeqToSet(discovered["JointsHidden"].errors) :
          lastFix' = FixCall("JointsHidden", err, FALSE)
    /\ scene' = HideJoints(scene)
    /\ UNCHANGED <<discovered, meta, window>>
    /\ UNCHANGED <<animVars, layerVars, run>>

\* -------------------------------------------------------------- NoNamespace
\* the namespaces a scene can have, in the order namespaceInfo lists them
AllNamespaces == <<"UI", "char", "char:rig", "prop", "shared">>

\* the namespace a namespace is merged into when it is removed
ParentNamespace(ns) == IF ns = "char:rig" THEN "char" ELSE ""

\* ns.count(':')
ColonCount(ns) == IF ns = "char:rig" THEN 1 ELSE 0

\* cmds.namespaceInfo(listOnlyNamespaces=True, recurse=True)
namespaceInfo(s) ==
    SelectSeq(AllNamespaces,
              LAMBDA n : n \in {"UI", "shared"} \cup s.namespaces)

\* NoNamespace._find: the namespaces it yields
NoNamespaceErrors(s) ==
    IF Len(namespaceInfo(s)) > 2
    THEN SelectSeq(namespaceInfo(s), LAMBDA n : n \notin {"UI", "shared"})
    ELSE <<>>

NoNamespaceFind ==
    /\ discovered' = Discovered("NoNamespace", NoNamespaceErrors(scene), FALSE)
    /\ UNCHANGED <<scene, meta, lastFix, window>>
    /\ UNCHANGED <<animVars, layerVars, run>>

\* the sort without reverse=True
SortedParentFirst(name_space) ==
    SelectSeq(name_space, LAMBDA n : ColonCount(n) = 0)
        \o SelectSeq(name_space, LAMBDA n : ColonCount(n) = 1)

\* sorted(name_space, key=lambda ns: ns.count(':'), reverse=True)
SortedChildFirst(name_space) ==
    SelectSeq(name_space, LAMBDA n : ColonCount(n) = 1)
        \o SelectSeq(name_space, LAMBDA n : ColonCount(n) = 0)

\* cmds.namespace(removeNamespace=ns, mergeNamespaceWithParent=True)
removeNamespace(s, ns) ==
    [s EXCEPT !.namespaces = s.namespaces \ {ns},
              !.nodeNamespace = [n \in DOMAIN s.nodeNamespace |->
                  IF s.nodeNamespace[n] = ns THEN ParentNamespace(ns)
                  ELSE s.nodeNamespace[n]]]

\* "for ns in sorted_ns_namespace: cmds.namespace(...)"
RECURSIVE RemoveNamespaces(_, _)
RemoveNamespaces(s, todoNs) ==
    IF todoNs = <<>> THEN s
    ELSE RemoveNamespaces(removeNamespace(s, Head(todoNs)), Tail(todoNs))

\* NoNamespace._fix(nspace): the scene it leaves
NoNamespaceFixed(s) ==
    RemoveNamespaces(s,
        SortedChildFirst(SelectSeq(namespaceInfo(s),
                                   LAMBDA n : n \notin {"UI", "shared"})))

NoNamespaceFix ==
    /\ \E nspace \in SeqToSet(discovered["NoNamespace"].errors) :
          lastFix' = FixCall("NoNamespace", nspace, FALSE)
    /\ scene' = NoNamespaceFixed(scene)
    /\ UNCHANGED <<discovered, meta, window>>
    /\ UNCHANGED <<animVars, layerVars, run>>

\* ---------------------------------------------------------------- UVSetMap1
\* the meshes a scene can have, in cmds.ls order
AllMeshes == <<"|body|bodyShape", "|prop|propShape">>

\* cmds.ls(type='mesh', long=True) where F is the attribute map consulted
lsMeshes(F) == SelectSeq(AllMeshes, LAMBDA m : m \in DOMAIN F)

\* dict(zip(indices, maps)) has the key 0
HasIndexZero(uv) == \E j \in 1 .. Len(uv) : uv[j].index = 0

\* mapping[0]
NameAtZero(uv) ==
    uv[CHOOSE j \in 1 .. Len(uv) :
           uv[j].index = 0 /\ \A l \in (j + 1) .. Len(uv) : uv[l].index # 0].name

\* UVSetMap1._find over the meshes left: what it yields, and whether
\* mapping[0] raised KeyError (a mesh without a UV set of index 0)
RECURSIVE UVSetMap1Scan(_, _, _)
UVSetMap1Scan(s, meshes, errs) ==
    IF meshes = <<>> THEN [errors |-> errs, raised |-> FALSE]
    ELSE LET mesh == Head(meshes) IN
         IF ~HasIndexZero(s.uvSets[mesh])
         THEN [errors |-> errs, raised |-> TRUE]
         ELSE UVSetMap1Scan(s, Tail(meshes),
                  IF NameAtZero(s.uvSets[mesh]) # "map1"
                  THEN Append(errs, mesh) ELSE errs)

UVSetMap1Result(s) == UVSetMap1Scan(s, lsMeshes(s.uvSets), <<>>)

UVSetMap1Find ==
    /\ discovered' = Discovered("UVSetMap1", UVSetMap1Result(scene).errors,
                                UVSetMap1Result(scene).raised)
    /\ UNCHANGED <<scene, meta, lastFix, window>>
    /\ UNCHANGED <<animVars, layerVars, run>>

\* ------------------------------------------------------- ComponentAnimation
\* ComponentAnimation._find over the meshes left: the curves it yields
RECURSIVE ComponentAnimationScan(_, _)
ComponentAnimationScan(s, meshes) ==
    IF meshes = <<>> THEN <<>>
    ELSE removeReferencedNodes(s.pnts[Head(meshes)], s)
             \o ComponentAnimationScan(s, Tail(meshes))

ComponentAnimationErrors(s) == ComponentAnimationScan(s, lsMeshes(s.pnts))

ComponentAnimationFind ==
    /\ discovered' = Discovered("ComponentAnimation",
                                ComponentAnimationErrors(scene), FALSE)
    /\ UNCHANGED <<scene, meta, lastFix, window>>
    /\ UNCHANGED <<animVars, layerVars, run>>

\* --------------------------------------------------- scenes for these checks
DagAttributes ==
    [visibility : BOOLEAN, overrideEnabled : BOOLEAN,
     overrideVisibility : BOOLEAN, intermediateObject : {FALSE}]

\* a rig of a group and two joints, the scene's own or referenced
InitJoints ==
    \E d \in [SeqToSet(DagNodes) -> DagAttributes],
       r \in {{}, {"|rig|hip|knee"}, SeqToSet(DagNodes)} :
        scene = [EmptyScene EXCEPT !.dag = d, !.referencedNodes = r]

NamespaceNodes == {"cube", "ball"}

\* a scene with namespaces, each with its parent, and nodes inside them
InitNamespaces ==
    \E N \in SUBSET {"char", "char:rig", "prop"} :
        /\ "char:rig" \in N => "char" \in N
        /\ \E f \in [NamespaceNodes -> N \cup {""}] :
              scene = [EmptyScene EXCEPT !.namespaces = N,
                                         !.nodeNamespace = f]

UVSetLists ==
    {<<>>,
     <<[index |-> 0, name |-> "map1"]>>,
     <<[index |-> 0, name |-> "uvSet1"]>>,
     <<[index |-> 0, name |-> "uvSet1"], [index |-> 1, name |-> "map1"]>>,
     <<[index |-> 0, name |-> "map1"], [index |-> 1, name |-> "map2"]>>}

\* meshes with UV sets, the scene's own or referenced
InitUVSets ==
    \E M \in SUBSET SeqToSet(AllMeshes) :
        \E u \in [M -> UVSetLists], r \in SUBSET M :
            scene = [EmptyScene EXCEPT !.uvSets = u, !.referencedNodes = r]

PntsCurves == <<"pntsCurveA", "pntsCurveB">>

\* meshes with anim curves on their points, the scene's own or referenced
InitPnts ==
    \E f \in [SeqToSet(AllMeshes) ->
                 {<<>>, <<"pntsCurveA">>, <<"pntsCurveB">>, PntsCurves}],
       r \in SUBSET SeqToSet(PntsCurves) :
        scene = [EmptyScene EXCEPT !.pnts = f, !.referencedNodes = r]

\* -------------------------------------------------------- ControlSetsArnold
\* the nurbsCurve shapes a scene can have, in cmds.ls order
AllCurves == <<"|ctrl|ctrlShape", "|guide|guideShape">>

\* ControlSetsArnold.attributes
ArnoldAttributes ==
    <<"rcurve", "cwdth", "srate", "ai_curve_shaderr", "ai_curve_shaderg",
      "ai_curve_shaderb">>

\* [i for i in cmds.ls(sets=True) if i == "controls_SET"]
controllers_sets(s) ==
    IF "controls_SET" \in DOMAIN s.sets THEN <<"controls_SET">> ELSE <<>>

\* cmds.ls(shapes, type="nurbsCurve", long=True) of the shapes under the
\* nodes given; with nothing given ls lists the whole scene when the host
\* reads an empty list as no list (listsAll), and nothing otherwise
lsCurves(s, nodes, listsAll) ==
    SelectSeq(AllCurves,
        LAMBDA c : /\ c \in DOMAIN s.curveOf
                   /\ \/ s.curveOf[c] \in SeqToSet(nodes)
                      \/ nodes = <<>> /\ listsAll)

\* ControlSetsArnold._find: what it yields (each Error is the list it
\* yielded) and whether it raised.  queryRaises: cmds.sets([], query=True)
\* raises in the host.  The loop over the curves raises NameError at
\* "cls.attributes" on its first pass, _find having no name cls.
ControlSetsArnoldResult(s, queryRaises, listsAll) ==
    LET sets1 == controllers_sets(s)
        y1 == IF sets1 = <<>> THEN <<<<>>>> ELSE <<>>
        controls == IF sets1 = <<>> THEN <<>> ELSE s.sets["controls_SET"]
        y2 == IF controls = <<>> THEN <<<<>>>> ELSE <<>>
        curves == lsCurves(s, controls, listsAll)
    IN  IF sets1 = <<>> /\ queryRaises
        THEN [errors |-> y1, raised |-> TRUE]
        ELSE IF curves # <<>>
        THEN [errors |-> y1 \o y2, raised |-> TRUE]
        ELSE [errors |-> y1 \o y2 \o <<<<>>>>, raised |-> FALSE]

ControlSetsArnoldFind ==
    /\ \E queryRaises \in BOOLEAN, listsAll \in BOOLEAN :
          LET r == ControlSetsArnoldResult(scene, queryRaises, listsAll) IN
          discovered' = Discovered("ControlSetsArnold", r.errors, r.raised)
    /\ UNCHANGED <<scene, meta, lastFix, window>>
    /\ UNCHANGED <<animVars, layerVars, run>>

\* a control curve has an Arnold attribute that is keyable
HasKeyableArnoldAttribute(s, c) ==
    \E j \in 1 .. Len(ArnoldAttributes) :
        /\ ArnoldAttributes[j] \in DOMAIN s.curveAttrs[c]
        /\ s.curveAttrs[c][ArnoldAttributes[j]]

CurveAttributeMaps ==
    {[a \in {} |-> FALSE],
     [a \in {"rcurve"} |-> FALSE],
     [a \in {"rcurve"} |-> TRUE],
     [a \in {"rcurve", "cwdth"} |-> a = "cwdth"]}

\* a scene with or without a controls_SET, and curves in or out of it
InitControls ==
    \E C \in SUBSET SeqToSet(AllCurves) :
        \E attrs \in [C -> CurveAttributeMaps],
           members \in {<<"none">>, <<>>, <<"|ctrl">>, <<"|grp">>,
                        <<"|ctrl", "|grp">>} :
            scene = [EmptyScene EXCEPT
                !.curveAttrs = attrs,
                !.curveOf = [c \in C |-> IF c = "|ctrl|ctrlShape"
                                         THEN "|ctrl" ELSE "|guide"],
                !.sets = IF members = <<"none">> THEN [n \in {} |-> <<>>]
                         ELSE [n \in {"controls_SET"} |-> members]]

\* ------------------------------------------------------------- SingleCamera
Renderers == {"arnold", "vray", "redshift", "renderManRIS", "mayaSoftware"}

\* renderer.lower(), and 'renderman' for what starts with it
LowerRenderer(renderer) ==
    CASE renderer = "renderManRIS" -> "renderman"
      [] renderer = "mayaSoftware" -> "mayasoftware"
      [] OTHER -> renderer

\* the keys of self.ImagePrefixes
ImagePrefixes == {"mentalray", "vray", "arnold", "renderman", "redshift"}

FilePrefixes == {"", "<Scene>/<RenderLayer>", "<Camera>/<Scene>", "%c_beauty"}

\* re.search(self.R_CAMERA_TOKEN, file_prefix)
HasCameraToken(file_prefix) ==
    file_prefix \in {"<Camera>/<Scene>", "%c_beauty"}

\* the pass, had the code written "elif len(cameras) <= 1"
SingleCameraResultAtMostOne(s) ==
    IF LowerRenderer(s.renderer) \notin ImagePrefixes
    THEN [errors |-> <<>>, raised |-> TRUE,
          message |-> "{0} renderable cameras"]
    ELSE IF Len(s.cameras) > 1
    THEN [errors |-> IF HasCameraToken(s.filePrefix) THEN <<>>
                     ELSE s.cameras,
          raised |-> FALSE, message |-> "{0} renderable cameras"]
    ELSE [errors |-> <<"no renderable camera found">>, raised |-> FALSE,
          message |-> "no renderable camera found"]

\* SingleCamera._find: what it yields, whether it raised (KeyError at
\* self.ImagePrefixes[renderer]) and the _message it leaves
SingleCameraResult(s) ==
    IF LowerRenderer(s.renderer) \notin ImagePrefixes
    THEN [errors |-> <<>>, raised |-> TRUE,
          message |-> "{0} renderable cameras"]
    ELSE IF Len(s.cameras) > 1
    THEN [errors |-> IF HasCameraToken(s.filePrefix) THEN <<>>
                     ELSE s.cameras,
          raised |-> FALSE, message |-> "{0} renderable cameras"]
    ELSE IF Len(s.cameras) < 1
    THEN [errors |-> <<"no renderable camera found">>, raised |-> FALSE,
          message |-> "no renderable camera found"]
    ELSE [errors |-> <<>>, raised |-> FALSE,
          message |-> "{0} renderable cameras"]

SingleCameraFind ==
    /\ discovered' = Discovered("SingleCamera", SingleCameraResult(scene).errors,
                                SingleCameraResult(scene).raised)
    /\ meta' = [meta EXCEPT !["SingleCamera"].message =
                                SingleCameraResult(scene).message]
    /\ UNCHANGED <<scene, lastFix, window>>
    /\ UNCHANGED <<animVars, layerVars, run>>

\* a scene with cameras, a renderer and an image file prefix
InitCameras ==
    \E cams \in {<<>>, <<"camA">>, <<"camA", "camB">>},
       renderer \in Renderers, prefix \in FilePrefixes :
        scene = [EmptyScene EXCEPT !.cameras = cams, !.renderer = renderer,
                                   !.filePrefix = prefix]

\* ---------------------------------------------------------- TransformSuffix
\* the last four characters of a transform's name; "ube1" stands for every
\* name that ends with no suffix of the table in any case
NameTails ==
    {"_GEO", "_geo", "_GES", "_GEP", "_OSD", "_CRV", "_crv", "_NRB", "_LOC",
     "_GRP", "ube1"}

\* str.upper() on four characters
Upper(tail) ==
    CASE tail = "_geo" -> "_GEO"
      [] tail = "_crv" -> "_CRV"
      [] tail = "ube1" -> "UBE1"
      [] OTHER -> tail

\* cmds.nodeType(shapes[0]) if shapes else None
ShapeTypes ==
    {"mesh", "nurbsCurve", "nurbsSurface", "locator", "None", "camera"}

\* SUFFIX_NAMING_TABLE
SuffixNamingTable ==
    [t \in {"mesh", "nurbsCurve", "nurbsSurface", "locator", "None"} |->
        CASE t = "mesh" -> <<"_GEO", "_GES", "_GEP", "_OSD">>
          [] t = "nurbsCurve" -> <<"_CRV">>
          [] t = "nurbsSurface" -> <<"_NRB">>
          [] t = "locator" -> <<"_LOC">>
          [] t = "None" -> <<"_GRP">>]

\* the transforms a scene can have, in cmds.ls order
AllTransforms == <<"|asset|part">>

\* cmds.ls(sl=self._selectable, type='transform', long=True)
lsTransforms(s, sl) ==
    SelectSeq(AllTransforms,
        LAMBDA t : t \in DOMAIN s.transforms
                   /\ (sl => s.transforms[t].selected))

\* transform.upper().endswith(suffix.upper())
EndsWith(tail, suffix) == Upper(tail) = Upper(suffix)

\* "for suffix in suffices: if not ...endswith(...): yield transform"
SuffixYields(transform, tail, suffices) ==
    [j \in 1 .. Len(SelectSeq(suffices, LAMBDA x : ~EndsWith(tail, x))) |->
        transform]

\* TransformSuffix._find over the transforms left: what it yields
RECURSIVE TransformSuffixScan(_, _)
TransformSuffixScan(s, transforms) ==
    IF transforms = <<>> THEN <<>>
    ELSE LET transform == Head(transforms)
             shape_type == s.transforms[transform].shape
         IN  (IF shape_type \in DOMAIN SuffixNamingTable
              THEN SuffixYields(transform, s.transforms[transform].tail,
                                SuffixNamingTable[shape_type])
              ELSE <<>>) \o TransformSuffixScan(s, Tail(transforms))

TransformSuffixErrors(s, sl) == TransformSuffixScan(s, lsTransforms(s, sl))

TransformSuffixFind ==
    /\ discovered' = Discovered("TransformSuffix",
           TransformSuffixErrors(scene, meta["TransformSuffix"].selectable),
           FALSE)
    /\ UNCHANGED <<scene, meta, lastFix, window>>
    /\ UNCHANGED <<animVars, layerVars, run>>

\* a scene with a transform, selected or not
InitTransforms ==
    \E T \in SUBSET SeqToSet(AllTransforms) :
        \E f \in [T -> [tail : NameTails, shape : ShapeTypes,
                        selected : BOOLEAN]] :
            scene = [EmptyScene EXCEPT !.transforms = f]

\* ------------------------------------------------ ui.window.show(collection)
\* collections.getCollectionsCategories(): the keys of COLLECTION
getCollectionsCategories == <<"ANIM", "MDL", "RIG", "SHD", "LGT Arnold">>

\* collections.COLLECTION: collection -> its categories, in order
COLLECTION ==
    [name \in SeqToSet(getCollectionsCategories) |->
        CASE name = "ANIM" -> <<"Scene", "Animation", "Scene">>
          [] name = "MDL" ->
               <<"Scene", "Modelling", "Geometry", "UV", "Shaders",
                 "Render Stats">>
          [] name = "RIG" ->
               <<"Scene", "Rigging", "Skinning", "Shaders", "Render Stats">>
          [] name = "SHD" ->
               <<"Scene", "Shaders", "Textures", "UV", "Render Stats">>
          [] name = "LGT Arnold" -> <<"Scene", "Arnold", "Textures">>]

\* what os.environ holds for AVALON_TASK; "unset" is no entry at all
EnvironValues ==
    {"unset", "", "ANIM", "MDL", "RIG", "SHD", "LGT Arnold", "anim",
     "Lighting"}

\* QualityAssuranceWindow.__init__: the collection the widgets are built
\* with, "raised" when os.environ['AVALON_TASK'] raises KeyError
WindowCollection(environ, collection) ==
    IF environ = "unset" THEN "raised"
    ELSE IF environ # "" /\ environ \in SeqToSet(getCollectionsCategories)
    THEN environ
    ELSE collection

\* show(collection)
WindowShow ==
    /\ window.outcome = "called"
    /\ window' = [window EXCEPT !.outcome =
                     WindowCollection(window.environ, window.collection)]
    /\ UNCHANGED <<scene, discovered, meta, lastFix>>
    /\ UNCHANGED <<animVars, layerVars, run>>

\* ------------------------------------------------------------ specification
\* no animation curve in the scene
InitNoCurve ==
    /\ exists = FALSE
    /\ referenced = FALSE
    /\ driven = FALSE
    /\ keys = <<>>
    /\ connected = {}
    /\ locked = {}
    /\ plugValue = [p \in PlugSet |-> 0]
    /\ errors = <<>>
    /\ pc = "idle"
    /\ fixAction = "none"
    /\ fixIndices = <<>>
    /\ todo = <<>>
    /\ evaluated = <<>>
    /\ cutLog = <<>>
    /\ written = {}
    /\ drove = {}
    /\ valueBefore = plugValue

\* the window is opened in a scene of any of the kinds above
InitWindow ==
    window \in [environ : EnvironValues,
                collection : SeqToSet(getCollectionsCategories),
                outcome : {"called"}]

InitScenes ==
    \/ InitJoints
    \/ InitNamespaces
    \/ InitUVSets
    \/ InitPnts
    \/ InitControls
    \/ InitCameras
    \/ InitTransforms

InitChecked ==
    /\ InitNoCurve
    /\ InitNoLayers
    /\ InitChecks
    /\ \/ InitScenes /\ window = NoWindow
       \/ scene = EmptyScene /\ InitWindow

NextChecks ==
    \/ JointsHiddenFind
    \/ JointsHiddenFix
    \/ NoNamespaceFind
    \/ NoNamespaceFix
    \/ UVSetMap1Find
    \/ ComponentAnimationFind
    \/ ControlSetsArnoldFind
    \/ SingleCameraFind
    \/ TransformSuffixFind
    \/ WindowShow

SpecChecks == InitChecked /\ [][NextChecks]_vars

\* ======================================================================
\* Part 4: the runner (utils and ui.widgets are not part of the sources at
\* hand; runDiscovery and runRemediation follow section 4.3 of the
\* specification) driving checks of animation.py, modelling.py and
\* renderLayers.py
\* ======================================================================
\* what the checks of a batch read and write
World ==
    [scene |-> scene, exists |-> exists, referenced |-> referenced,
     driven |-> driven, keys |-> keys, connected |-> connected,
     locked |-> locked, plugValue |-> plugValue]

\* self.ls(type="animCurve") in the world w
lsAnimCurves(w) == IF w.exists THEN <<AnimCurve>> ELSE <<>>

\* ------------------------------------------------------ NotConnectedAnimation
\* NotConnectedAnimation._find: the curves it yields
NotConnectedAnimationErrors(w) ==
    SelectSeq(SelectSeq(lsAnimCurves(w), LAMBDA c : ~w.referenced),
              LAMBDA c : w.connected = {})

\* cmds.delete(animCurve) on a curve of the scene: the node and its
\* connections go; host[p] is what the host leaves in a plug p the curve
\* drove
deleteAnimCurve(w, host) ==
    [w EXCEPT !.exists = FALSE, !.keys = <<>>, !.connected = {},
              !.plugValue = [p \in PlugSet |->
                                IF p \in w.connected THEN host[p]
                                ELSE w.plugValue[p]]]

\* NotConnectedAnimation._fix(animCurve): cmds.delete raises when no node
\* has the name
NotConnectedAnimationFixed(w, animCurve, host) ==
    IF ~w.exists THEN [w |-> w, raised |-> TRUE]
    ELSE [w |-> deleteAnimCurve(w, host), raised |-> FALSE]

\* ------------------------------------------------------------ CleanAnimation
\* CleanAnimation._find in the world w
CleanAnimationErrors(w) ==
    SelectSeq(SelectSeq(SelectSeq(lsAnimCurves(w), LAMBDA c : ~w.referenced),
                        LAMBDA c : ~w.driven),
              LAMBDA c : Evaluate(w.keys).action \in {"delete", "indices"})

\* "for i in indices[::-1]: cmds.cutKey(...)"
RECURSIVE CutKeys(_, _)
CutKeys(k, reversed) ==
    IF reversed = <<>> THEN k
    ELSE CutKeys(CutKey(k, Head(reversed)), Tail(reversed))

\* the "pass" branch of CleanAnimation._fix taken for "delete"
CleanAnimationFixedAlways(w, animCurve, host) ==
    IF ~w.exists THEN [w |-> w, raised |-> TRUE]
    ELSE LET r == Evaluate(w.keys)
             deleted == deleteAnimCurve(w, host)
         IN  IF r.action \in {"delete", "pass"}
             THEN [w |-> [deleted EXCEPT !.plugValue = [p \in PlugSet |->
                             IF p \in w.connected /\ p \notin w.locked
                             THEN w.plugValue[p] ELSE deleted.plugValue[p]]],
                   raised |-> FALSE]
             ELSE [w |-> [w EXCEPT !.keys = CutKeys(w.keys, Reverse(r.indices))],
                   raised |-> FALSE]

\* CleanAnimation._fix(animCurve) run to its end: evaluateAnimCurve raises
\* when no node has the name (the keyframe queries fail)
CleanAnimationFixed(w, animCurve, host) ==
    IF ~w.exists THEN [w |-> w, raised |-> TRUE]
    ELSE LET r == Evaluate(w.keys)
             deleted == deleteAnimCurve(w, host)
         IN  IF r.action = "delete"
             THEN [w |-> [deleted EXCEPT !.plugValue = [p \in PlugSet |->
                             IF p \in w.connected /\ p \notin w.locked
                             THEN w.plugValue[p] ELSE deleted.plugValue[p]]],
                   raised |-> FALSE]
             ELSE IF r.action = "indices"
             THEN [w |-> [w EXCEPT !.keys = CutKeys(w.keys, Reverse(r.indices))],
                   raised |-> FALSE]
             ELSE [w |-> w, raised |-> FALSE]

\* --------------------------------------------------------------- Subdivision
\* Subdivision._find: the value of ignoreSubdivision when it is 1
SubdivisionErrors(s) == IF s.ignoreSubdivision = 1 THEN <<1>> ELSE <<>>

\* Subdivision._fix(self) has no parameter for the error: the call
\* _fix(error) raises TypeError and the setAttr of its body never runs
SubdivisionFixed(w, error) == [w |-> w, raised |-> TRUE]

\* ------------------------------------------------------ DuplicateAdjustments
\* the render layers of the scene s, in ls order
lsRenderLayers(s) ==
    SelectSeq(RenderLayers, LAMBDA l : l \in DOMAIN s.outAdjustments)

\* the plug "<layer>.outAdjustments[i].outPlug"; outValue is its sibling
outPlug(layer, i) == [layer |-> layer, index |-> i]

\* cmds.listConnections("<layer>.outAdjustments", d=0, c=1, p=1): the
\* adjustments with a connected outPlug, as [source, destination]
adjustmentConnections(s, layer) ==
    LET adj == s.outAdjustments[layer]
        idx == SelectSeq([j \in 1 .. Len(adj) |-> j],
                         LAMBDA j : adj[j].plug # "none")
    IN  [j \in 1 .. Len(idx) |->
            [source |-> outPlug(layer, idx[j]), destination |-> adj[idx[j]].plug]]

\* "for s2, d2 in zip(source[i+1:], destination[i+1:]): if d1 == d2: yield"
DuplicatesOf(conn, i) ==
    LET later == SelectSeq(SubSeq(conn, i + 1, Len(conn)),
                           LAMBDA c2 : conn[i].destination = c2.destination)
    IN  [j \in 1 .. Len(later) |-> <<conn[i].destination, conn[i].source>>]

\* "for i, (s1, d1) in enumerate(zip(source, destination))"
RECURSIVE DuplicatesFrom(_, _)
DuplicatesFrom(conn, i) ==
    IF i > Len(conn) THEN <<>>
    ELSE DuplicatesOf(conn, i) \o DuplicatesFrom(conn, i + 1)

\* "for renderlayer in renderlayers"
RECURSIVE DuplicateAdjustmentsScan(_, _)
DuplicateAdjustmentsScan(s, renderlayers) ==
    IF renderlayers = <<>> THEN <<>>
    ELSE (IF IsDefaultLayer(Head(renderlayers)) THEN <<>>
          ELSE DuplicatesFrom(adjustmentConnections(s, Head(renderlayers)), 1))
         \o DuplicateAdjustmentsScan(s, Tail(renderlayers))

\* DuplicateAdjustments._find: the [d1, s1] it yields
DuplicateAdjustmentsErrors(s) ==
    DuplicateAdjustmentsScan(s, removeReferencedNodes(lsRenderLayers(s), s))

\* cmds.disconnectAttr(d1, s1) finds the two plugs connected
IsConnected(s, d1, s1) ==
    /\ s1.layer \in DOMAIN s.outAdjustments
    /\ s1.index \in 1 .. Len(s.outAdjustments[s1.layer])
    /\ s.outAdjustments[s1.layer][s1.index].plug = d1

\* a _fix that disconnects every adjustment of the layer connected to d1
DuplicateAdjustmentsFixedEvery(w, data) ==
    LET d1 == data[1]
        s1 == data[2]
        adj == w.scene.outAdjustments[s1.layer]
    IN  [w |-> [w EXCEPT !.scene.outAdjustments[s1.layer] =
                   [j \in 1 .. Len(adj) |->
                       IF adj[j].plug = d1 THEN [adj[j] EXCEPT !.plug = "none"]
                       ELSE adj[j]]],
         raised |-> FALSE]

\* DuplicateAdjustments._fix(data): disconnectAttr raises when the plugs are
\* not connected; other[0] raises IndexError when outValue has no
\* destination, after the first disconnectAttr has been done
DuplicateAdjustmentsFixed(w, data) ==
    LET d1 == data[1]
        s1 == data[2]
        s == w.scene
    IN  IF ~IsConnected(s, d1, s1) THEN [w |-> w, raised |-> TRUE]
        ELSE LET cut == [s EXCEPT
                     !.outAdjustments[s1.layer][s1.index].plug = "none"]
                 other == s.outAdjustments[s1.layer][s1.index].values
             IN  IF other = 0
                 THEN [w |-> [w EXCEPT !.scene = cut], raised |-> TRUE]
                 ELSE [w |-> [w EXCEPT !.scene = [cut EXCEPT
                         !.outAdjustments[s1.layer][s1.index].values =
                             other - 1]],
                       raised |-> FALSE]

\* ------------------------------------------------------------------- runner
\* the checks the runner is given
RunnerChecks ==
    {"NotConnectedAnimation", "CleanAnimation", "JointsHidden", "NoNamespace",
     "DuplicateAdjustments", "SingleCamera", "Subdivision"}

\* check.discover() in the world w: what it yields and whether it raised
discover(c, w) ==
    CASE c = "NotConnectedAnimation" ->
           [errors |-> NotConnectedAnimationErrors(w), raised |-> FALSE]
      [] c = "CleanAnimation" ->
           [errors |-> CleanAnimationErrors(w), raised |-> FALSE]
      [] c = "JointsHidden" ->
           [errors |-> JointsHiddenErrors(w.scene), raised |-> FALSE]
      [] c = "NoNamespace" ->
           [errors |-> NoNamespaceErrors(w.scene), raised |-> FALSE]
      [] c = "DuplicateAdjustments" ->
           [errors |-> DuplicateAdjustmentsErrors(w.scene), raised |-> FALSE]
      [] c = "SingleCamera" ->
           [errors |-> SingleCameraResult(w.scene).errors,
            raised |-> SingleCameraResult(w.scene).raised]
      [] c = "Subdivision" ->
           [errors |-> SubdivisionErrors(w.scene), raised |-> FALSE]

\* check.remediate(error) in the world w: the world it leaves and whether
\* it raised
remediate(c, error, w, host) ==
    CASE c = "NotConnectedAnimation" ->
           NotConnectedAnimationFixed(w, error, host)
      [] c = "CleanAnimation" -> CleanAnimationFixed(w, error, host)
      [] c = "JointsHidden" ->
           [w |-> [w EXCEPT !.scene = HideJoints(w.scene)], raised |-> FALSE]
      [] c = "NoNamespace" ->
           [w |-> [w EXCEPT !.scene = NoNamespaceFixed(w.scene)],
            raised |-> FALSE]
      [] c = "DuplicateAdjustments" -> DuplicateAdjustmentsFixed(w, error)
      [] c = "Subdivision" -> SubdivisionFixed(w, error)

\* a discovery failure ends the whole run
AfterDiscoverAbort(i, raised, n) == IF raised THEN n + 1 ELSE i + 1

\* the check runDiscovery goes on with after check i of n: a failure inside
\* discover() is caught and does not abort the remaining checks
AfterDiscover(i, raised, n) == i + 1

\* runDiscovery(checks) from check i on: one RunResult for each check, a
\* failed pass showing zero errors
RECURSIVE runDiscoveryFrom(_, _, _, _)
runDiscoveryFrom(checks, i, w, results) ==
    IF i > Len(checks) THEN results
    ELSE LET r == discover(checks[i], w) IN
         runDiscoveryFrom(checks, AfterDiscover(i, r.raised, Len(checks)), w,
             Append(results,
                    [check |-> checks[i],
                     errors |-> IF r.raised THEN <<>> ELSE r.errors,
                     failed |-> r.raised]))

\* the selection decides for every check
TargetedSelected(c, outstanding, selection) ==
    SelectSeq(outstanding, LAMBDA e : e \in selection[c])

\* the Errors of check c runRemediation targets: all that are outstanding
\* when the check is not selectable, else those of the selection
Targeted(c, outstanding, selection) ==
    IF meta[c].selectable
    THEN SelectSeq(outstanding, LAMBDA e : e \in selection[c])
    ELSE outstanding

\* remediate(error) for each targeted Error of check c, failures caught
\* per Error; batch is the world left, the calls made and the checks
\* touched so far
RECURSIVE remediateEach(_, _, _, _)
remediateEach(c, targets, batch, host) ==
    IF targets = <<>> THEN batch
    ELSE LET r == remediate(c, Head(targets), batch.w, host) IN
         remediateEach(c, Tail(targets),
             [batch EXCEPT
                 !.w = r.w,
                 !.calls = Append(batch.calls,
                     [check |-> c, error |-> Head(targets),
                      raised |-> r.raised, before |-> batch.w,
                      after |-> r.w])],
             host)

\* runRemediation(checks, selection) from check i on, before the
\* re-discovery
RECURSIVE runRemediationFrom(_, _, _, _, _)
runRemediationFrom(checks, i, selection, batch, host) ==
    IF i > Len(checks) THEN batch
    ELSE LET c == checks[i]
             targets == Targeted(c, discovered[c].errors, selection)
         IN  IF targets = <<>>
             THEN runRemediationFrom(checks, i + 1, selection, batch, host)
             ELSE runRemediationFrom(checks, i + 1, selection,
                      remediateEach(c, targets,
                          [batch EXCEPT !.touched = Append(batch.touched, c)],
                          host),
                      host)

\* the ordered lists of checks the runner is called with
CheckLists ==
    {<<"SingleCamera", "NoNamespace", "Subdivision", "DuplicateAdjustments",
       "JointsHidden">>,
     <<"NotConnectedAnimation", "CleanAnimation", "CleanAnimation",
       "Subdivision">>,
     <<"Subdivision", "NoNamespace">>}

\* the caller's selections: for each check the Errors toggled in its list
Selections ==
    LET Sel(curves, clean, joints, subdiv) ==
            [c \in RunnerChecks |->
                CASE c = "NotConnectedAnimation" -> curves
                  [] c = "CleanAnimation" -> clean
                  [] c = "JointsHidden" -> joints
                  [] c = "Subdivision" -> subdiv
                  [] OTHER -> {}]
    IN  {Sel({}, {}, {}, {}),
         Sel({AnimCurve}, {AnimCurve}, {"|rig|hip", "|rig|hip|knee"}, {1}),
         Sel({}, {AnimCurve}, {"|rig|hip|knee"}, {})}

\* runDiscovery(checks): every result supersedes the check's previous one
RunDiscovery ==
    \E checks \in CheckLists :
       LET results == runDiscoveryFrom(checks, 1, World, <<>>)
           ran == {results[j].check : j \in 1 .. Len(results)}
       IN  /\ run' = [NoRun EXCEPT !.op = "runDiscovery", !.checks = checks,
                                   !.results = results]
           /\ discovered' = [c \in Checks |->
                 IF c \in ran
                 THEN [errors |-> IF discover(c, World).raised THEN <<>>
                                  ELSE discover(c, World).errors,
                       raised |-> discover(c, World).raised]
                 ELSE discovered[c]]
           /\ meta' = IF "SingleCamera" \in ran
                      THEN [meta EXCEPT !["SingleCamera"].message =
                                            SingleCameraResult(scene).message]
                      ELSE meta
           /\ errors' = discovered'["CleanAnimation"].errors
           /\ UNCHANGED <<scene, lastFix, window>>
           /\ UNCHANGED <<exists, referenced, driven, keys, connected, locked,
                          plugValue, pc, fixAction, fixIndices, todo,
                          evaluated, cutLog, written, drove, valueBefore>>
           /\ UNCHANGED layerVars

\* runRemediation(checks, selection), with the re-discovery of every
\* touched check at its end
RunRemediation ==
    \E checks \in CheckLists, selection \in Selections,
       host \in [connected -> Values] :
       LET r == runRemediationFrom(checks, 1, selection,
                    [w |-> World, calls |-> <<>>, touched |-> <<>>], host)
           touched == SeqToSet(r.touched)
       IN  /\ r.calls # <<>>
           /\ run' = [NoRun EXCEPT !.op = "runRemediation",
                                   !.checks = checks,
                                   !.selection = selection,
                                   !.outstanding = discovered,
                                   !.calls = r.calls,
                                   !.touched = r.touched]
           /\ scene' = r.w.scene
           /\ exists' = r.w.exists
           /\ keys' = r.w.keys
           /\ connected' = r.w.connected
           /\ plugValue' = r.w.plugValue
           /\ discovered' = [c \in Checks |->
                 IF c \in touched
                 THEN [errors |-> IF discover(c, r.w).raised THEN <<>>
                                  ELSE discover(c, r.w).errors,
                       raised |-> discover(c, r.w).raised]
                 ELSE discovered[c]]
           /\ meta' = IF "SingleCamera" \in touched
                      THEN [meta EXCEPT !["SingleCamera"].message =
                                            SingleCameraResult(r.w.scene).message]
                      ELSE meta
           /\ errors' = discovered'["CleanAnimation"].errors
           /\ UNCHANGED <<lastFix, window>>
           /\ UNCHANGED <<referenced, driven, locked, pc, fixAction,
                          fixIndices, todo, evaluated, cutLog, written,
                          drove, valueBefore>>
           /\ UNCHANGED layerVars

\* ------------------------------------------------------------ specification
\* the adjustments of a layer: the scene plug on outPlug ("none" when the
\* adjustment is not connected) and the number of destinations of outValue
OutAdjustments ==
    [plug : {"none", "pCubeShape1.instObjGroups", "pBallShape1.instObjGroups"},
     values : 0 .. 1]

\* the most adjustments of a render layer
MaxOutAdjustments == 2

\* a scene with a render layer of its own and its adjustments
InitAdjustments ==
    \E n \in 0 .. MaxOutAdjustments :
       \E adj \in [1 .. n -> OutAdjustments],
          r \in {{}, {"layer1"}} :
           scene = [EmptyScene EXCEPT
               !.outAdjustments =
                   [l \in {"defaultRenderLayer", "layer1"} |->
                       IF l = "layer1" THEN adj ELSE <<>>],
               !.referencedNodes = r]

\* a rig of a group and two joints without display overrides
InitRunJoints ==
    \E v \in [SeqToSet(DagNodes) -> BOOLEAN],
       r \in {{}, {"|rig|hip|knee"}} :
        scene = [EmptyScene EXCEPT
            !.dag = [n \in SeqToSet(DagNodes) |->
                        [visibility |-> v[n], overrideEnabled |-> FALSE,
                         overrideVisibility |-> TRUE,
                         intermediateObject |-> FALSE]],
            !.referencedNodes = r]

\* a scene with namespaces, a renderer and the subdivision override
InitSettings ==
    \E N \in {{}, {"prop"}, {"char", "char:rig", "prop"}},
       renderer \in {"arnold", "mayaSoftware"}, subdiv \in 0 .. 1 :
        scene = [EmptyScene EXCEPT
            !.namespaces = N,
            !.nodeNamespace = [n \in NamespaceNodes |->
                                  IF "prop" \in N THEN "prop" ELSE ""],
            !.renderer = renderer,
            !.ignoreSubdivision = subdiv]

\* a scene with a flat curve of the scene's own: a short one, or a longer
\* one that starts at 0 and ends in a spline key; it drives a plug, locked
\* or not, or nothing
InitRunCurve ==
    /\ exists = TRUE
    /\ referenced = FALSE
    /\ driven = FALSE
    /\ \/ \E n \in 0 .. MaxStaticKeys : keys \in CurvesOfLen(n, FlatKeys)
       \/ keys \in {k \in CurvesOfLen(MaxKeys, FlatKeys) :
                       k[1].v = 0 /\ Last(k).tt = "spline"}
    /\ \/ connected = {} /\ locked = {}
       \/ connected = {Plugs[1]} /\ locked \in {{}, {Plugs[1]}}
    /\ plugValue = [p \in PlugSet |-> IF p \in connected THEN 1 ELSE 0]

InitRunner ==
    /\ InitNoLayers
    /\ InitChecks
    /\ window = NoWindow
    /\ errors = <<>>
    /\ pc = "idle"
    /\ fixAction = "none"
    /\ fixIndices = <<>>
    /\ todo = <<>>
    /\ evaluated = <<>>
    /\ cutLog = <<>>
    /\ written = {}
    /\ drove = {}
    /\ \/ InitRunCurve /\ scene = EmptyScene
       \/ /\ exists = FALSE
          /\ referenced = FALSE
          /\ driven = FALSE
          /\ keys = <<>>
          /\ connected = {}
          /\ locked = {}
          /\ plugValue = [p \in PlugSet |-> 0]
          /\ InitAdjustments \/ InitSettings \/ InitRunJoints
    /\ valueBefore = plugValue

NextRunner ==
    \/ RunDiscovery
    \/ RunRemediation

SpecRunner == InitRunner /\ [][NextRunner]_vars

\* ======================================================================
\* Part 5: FreezeTransforms and the _fix of UVSetMap1 (checks/modelling.py),
\* ValidateDisplacement and DuplicateAdjustments (checks/renderLayers.py),
\* each call run to its end in one step
\* ======================================================================
\* ---------------------------------------------------------- FreezeTransforms
\* self._ignoreNodes
ignoreNodes == <<"|persp", "|front", "|top", "|side">>

\* zip(self._attributes, self._values)
defaultState ==
    <<[attr |-> ".tx", value |-> 0], [attr |-> "ty", value |-> 0],
      [attr |-> "tz", value |-> 0], [attr |-> ".rx", value |-> 0],
      [attr |-> "ry", value |-> 0], [attr |-> "rz", value |-> 0],
      [attr |-> ".sx", value |-> 1], [attr |-> "sy", value |-> 1],
      [attr |-> "sz", value |-> 1]>>

\* the nine transform attributes, by their short names
TransformAttributes ==
    {"tx", "ty", "tz", "rx", "ry", "rz", "sx", "sy", "sz"}

\* the attribute the string transform + attr names: attr without its dot;
\* "none" when attr has no dot, the string then being a node name only
AttributeOf(attr) ==
    CASE attr = ".tx" -> "tx"
      [] attr = ".rx" -> "rx"
      [] attr = ".sx" -> "sx"
      [] OTHER -> "none"

\* cmds.objExists(transform + attr); no node of the scene has the name of a
\* transform followed by ty, tz, ry, rz, sy or sz
objExists(s, transform, attr) ==
    /\ transform \in DOMAIN s.attrs
    /\ AttributeOf(attr) \in TransformAttributes

\* self.ls(transforms=True, l=True)
AllFreezeTransforms == <<"|pCube1", "|persp">>

lsAllTransforms(s) ==
    SelectSeq(AllFreezeTransforms, LAMBDA t : t \in DOMAIN s.attrs)

\* "for attr, value in self.defaultState" from pair i on, for one transform
RECURSIVE FreezeTransformsYields(_, _, _)
FreezeTransformsYields(s, transform, i) ==
    IF i > Len(defaultState) THEN <<>>
    ELSE (IF /\ objExists(s, transform, defaultState[i].attr)
             /\ s.attrs[transform][AttributeOf(defaultState[i].attr)]
                    # defaultState[i].value
          THEN <<transform>> ELSE <<>>)
         \o FreezeTransformsYields(s, transform, i + 1)

\* "for transform in transforms"
RECURSIVE FreezeTransformsScan(_, _)
FreezeTransformsScan(s, transforms) ==
    IF transforms = <<>> THEN <<>>
    ELSE (IF Head(transforms) \in SeqToSet(ignoreNodes) THEN <<>>
          ELSE FreezeTransformsYields(s, Head(transforms), 1))
         \o FreezeTransformsScan(s, Tail(transforms))

\* FreezeTransforms._find: the transforms it yields
FreezeTransformsErrors(s) ==
    FreezeTransformsScan(s, removeReferencedNodes(lsAllTransforms(s), s))

FreezeTransformsFind ==
    /\ discovered' = Discovered("FreezeTransforms", FreezeTransformsErrors(scene),
                                FALSE)
    /\ UNCHANGED <<scene, meta, lastFix, window>>
    /\ UNCHANGED <<animVars, layerVars, run>>

\* ------------------------------------------------------ ValidateDisplacement
\* ValidateDisplacement._find: what it yields
ValidateDisplacementErrors(s) ==
    IF s.ignoreDisplacement = 1 THEN <<"Displacement set to Ignore !">>
    ELSE <<>>

ValidateDisplacementFind ==
    /\ discovered' = Discovered("ValidateDisplacement",
                                ValidateDisplacementErrors(scene), FALSE)
    /\ UNCHANGED <<scene, meta, lastFix, window>>
    /\ UNCHANGED <<animVars, layerVars, run>>

\* ValidateDisplacement._fix(data): the value it sets
ValidateDisplacementFixed(s) == [s EXCEPT !.ignoreDisplacement = 1]

ValidateDisplacementFix ==
    /\ \E data \in SeqToSet(discovered["ValidateDisplacement"].errors) :
          lastFix' = FixCall("ValidateDisplacement", data, FALSE)
    /\ scene' = ValidateDisplacementFixed(scene)
    /\ UNCHANGED <<discovered, meta, window>>
    /\ UNCHANGED <<animVars, layerVars, run>>

\* ------------------------------------------------------ DuplicateAdjustments
DuplicateAdjustmentsFind ==
    /\ discovered' = Discovered("DuplicateAdjustments",
                                DuplicateAdjustmentsErrors(scene), FALSE)
    /\ UNCHANGED <<scene, meta, lastFix, window>>
    /\ UNCHANGED <<animVars, layerVars, run>>

\* _fix called on each Error of the list in order, a call that raises not
\* stopping the calls after it: the scene left
RECURSIVE DuplicateAdjustmentsFixEach(_, _)
DuplicateAdjustmentsFixEach(w, errs) ==
    IF errs = <<>> THEN w.scene
    ELSE DuplicateAdjustmentsFixEach(
             DuplicateAdjustmentsFixed(w, Head(errs)).w, Tail(errs))

\* every Error of the last discovery pass is remediated
DuplicateAdjustmentsFixAll ==
    /\ discovered["DuplicateAdjustments"].errors # <<>>
    /\ lastFix' = FixCall("DuplicateAdjustments", <<>>, FALSE)
    /\ scene' = DuplicateAdjustmentsFixEach(World,
                    discovered["DuplicateAdjustments"].errors)
    /\ UNCHANGED <<discovered, meta, window>>
    /\ UNCHANGED <<animVars, layerVars, run>>

\* ----------------------------------------------------------- UVSetMap1._fix
\* "map{0}".format(i)
MapName(i) ==
    CASE i = 1 -> "map1" [] i = 2 -> "map2" [] i = 3 -> "map3"
      [] i = 4 -> "map4" [] i = 5 -> "map5" [] i = 6 -> "map6"
      [] i = 7 -> "map7" [] i = 8 -> "map8" [] OTHER -> "map9"

\* the names cmds.polyUVSet(mesh, query=True, allUVSets=True) returns
UVSetNames(uv) == {uv[j].name : j \in 1 .. Len(uv)}

\* the loop left at once, with i = 2
FirstFreeIndexTwo(existing, i) == i

\* "while True: name = 'map{0}'.format(i) ..." from i on: the i it breaks at
RECURSIVE FirstFreeIndex(_, _)
FirstFreeIndex(existing, i) ==
    IF MapName(i) \notin existing THEN i
    ELSE FirstFreeIndex(existing, i + 1)

\* cmds.polyUVSet(mesh, rename=True, uvSet=old, newUVSet=new); it raises
\* when the mesh has no UV set named old
polyUVSetRename(uv, old, new) ==
    IF old \notin UVSetNames(uv) THEN [uv |-> uv, raised |-> TRUE]
    ELSE [uv |-> [j \in 1 .. Len(uv) |->
                     IF uv[j].name = old THEN [uv[j] EXCEPT !.name = new]
                     ELSE uv[j]],
          raised |-> FALSE]

\* UVSetMap1._fix(mesh): the UV sets it leaves and whether it raised;
\* mapping[0] raises KeyError for a mesh without a UV set of index 0
UVSetMap1Fixed(uv) ==
    IF ~HasIndexZero(uv) THEN [uv |-> uv, raised |-> TRUE]
    ELSE LET existing == UVSetNames(uv)
             original == NameAtZero(uv)
             moved == IF "map1" \in existing
                      THEN polyUVSetRename(uv, "map1",
                               MapName(FirstFreeIndex(existing, 2)))
                      ELSE [uv |-> uv, raised |-> FALSE]
         IN  IF moved.raised THEN moved
             ELSE polyUVSetRename(moved.uv, original, "map1")

UVSetMap1Fix ==
    /\ \E mesh \in SeqToSet(discovered["UVSetMap1"].errors) :
          /\ lastFix' = FixCall("UVSetMap1", mesh,
                                UVSetMap1Fixed(scene.uvSets[mesh]).raised)
          /\ scene' = [scene EXCEPT !.uvSets[mesh] =
                           UVSetMap1Fixed(scene.uvSets[mesh]).uv]
    /\ UNCHANGED <<discovered, meta, window>>
    /\ UNCHANGED <<animVars, layerVars, run>>

\* ------------------------------------------------------------ specification
\* what getAttr returns for a transform attribute
AttributeValues == 0 .. 1

\* a cube, the scene's own or referenced, and the persp camera
InitFreeze ==
    \E a \in [TransformAttributes -> AttributeValues],
       p \in {[n \in TransformAttributes |-> IF n = "tx" THEN 1 ELSE 0],
              [n \in TransformAttributes |->
                  IF n \in {"sx", "sy", "sz"} THEN 1 ELSE 0]},
       r \in {{}, {"|pCube1"}} :
        scene = [EmptyScene EXCEPT
            !.attrs = [t \in SeqToSet(AllFreezeTransforms) |->
                          IF t = "|pCube1" THEN a ELSE p],
            !.referencedNodes = r]

\* the feature override of the Arnold render options
InitDisplacement ==
    \E disp \in 0 .. 1 :
        scene = [EmptyScene EXCEPT !.ignoreDisplacement = disp]

\* the most UV sets of a mesh
MaxUVSets == 3

\* the names a UV set can have
UVSetNameChoices == {"map1", "map2", "map3", "uvSet1"}

\* a mesh with UV sets of distinct names, of the indices 0, 1, ...
InitFixUVSets ==
    \E n \in 0 .. MaxUVSets :
       \E names \in [1 .. n -> UVSetNameChoices] :
          /\ \A i \in 1 .. n : \A j \in 1 .. n :
                i # j => names[i] # names[j]
          /\ scene = [EmptyScene EXCEPT
                !.uvSets = [m \in {AllMeshes[1]} |->
                    [j \in 1 .. n |-> [index |-> j - 1, name |-> names[j]]]]]

\* the most adjustments of the render layer whose duplicates are removed
MaxDuplicates == 3

\* a scene with a render layer of its own and up to MaxDuplicates adjustments
InitDuplicates ==
    \E n \in 0 .. MaxDuplicates :
       \E adj \in [1 .. n -> OutAdjustments],
          r \in {{}, {"layer1"}} :
           scene = [EmptyScene EXCEPT
               !.outAdjustments =
                   [l \in {"defaultRenderLayer", "layer1"} |->
                       IF l = "layer1" THEN adj ELSE <<>>],
               !.referencedNodes = r]

InitFixes ==
    /\ InitNoCurve
    /\ InitNoLayers
    /\ InitChecks
    /\ window = NoWindow
    /\ InitFreeze \/ InitDisplacement \/ InitDuplicates \/ InitFixUVSets

NextFixes ==
    \/ FreezeTransformsFind
    \/ ValidateDisplacementFind
    \/ ValidateDisplacementFix
    \/ DuplicateAdjustmentsFind
    \/ DuplicateAdjustmentsFixAll
    \/ UVSetMap1Find
    \/ UVSetMap1Fix

SpecFixes == InitFixes /\ [][NextFixes]_vars

TypeOK ==
    /\ exists \in BOOLEAN
    /\ pc \in {"idle", "cut", "delete", "reset"}
    /\ fixAction \in Actions \cup {"none"}


\* ======================================================================
\* Claims about CleanAnimation.evaluateAnimCurve
\* ======================================================================
\* The rule of the claims, stated on the key data and not on the code's
\* lists: the angle and the value tolerance are the defaults.
IsFlat(a) == (IF a < 0 THEN 0 - a ELSE a) < DefaultAngle

IsClose(x, y) == (IF x < y THEN y - x ELSE x - y) < DefaultSize

Interior(k) == {i \in 0 .. (Len(k) - 1) : 0 < i /\ i < Len(k) - 1}

AllStepped(k, i) == \A j \in {i - 1, i, i + 1} : At(k, j).tt = "step"

FourFlat(k, i) ==
    /\ IsFlat(At(k, i - 1).oa)
    /\ IsFlat(At(k, i).ia)
    /\ IsFlat(At(k, i).oa)
    /\ IsFlat(At(k, i + 1).ia)

FlatCandidate(k, i) ==
    /\ FourFlat(k, i)
    /\ IsClose(At(k, i - 1).v, At(k, i).v)
    /\ IsClose(At(k, i + 1).v, At(k, i).v)

RemovalCandidate(k, i) ==
    \/ AllStepped(k, i) /\ IsClose(At(k, i - 1).v, At(k, i).v)
    \/ FlatCandidate(k, i)

RemovalCandidates(k) == {i \in Interior(k) : RemovalCandidate(k, i)}

BoundaryStatic(k) ==
    /\ IsClose(At(k, 0).v, At(k, Len(k) - 1).v)
    /\ IsFlat(At(k, 0).oa)
    /\ IsFlat(At(k, Len(k) - 1).ia)

Collapses(k) ==
    /\ Len(k) - Cardinality(RemovalCandidates(k)) = 2
    /\ BoundaryStatic(k)

Ascending(s) == \A i, j \in 1 .. Len(s) : i < j => s[i] < s[j]

\* the curve _fix evaluated last, and what it was told
FixEvaluated == fixAction # "none"

\* C1: a curve with 0 or 1 keys is classified "delete", whatever its value,
\* tangent angles and tangent type are: both the curve of the scene and the
\* curve _fix evaluated.
C1_AtMostOneKeyDeletes ==
    /\ exists /\ Len(keys) <= 1 => Evaluate(keys).action = "delete"
    /\ FixEvaluated /\ Len(evaluated) <= 1 => fixAction = "delete"

\* C1 witness: _fix evaluated a one-key curve whose key is neither flat nor
\* at value 0 and is stepped, and was told "delete".
C1_Witness ==
    /\ fixAction = "delete"
    /\ Len(evaluated) = 1
    /\ evaluated[1].v = DefaultSize
    /\ ~IsFlat(evaluated[1].oa)
    /\ evaluated[1].tt = "step"

\* C2: a curve with more than 1 key all of whose interior keys are flat
\* candidates, and whose first and last key are value-close and flat at the
\* boundary, is classified "delete" and not "indices".
C2_Precondition(k) ==
    /\ Len(k) > 1
    /\ \A i \in Interior(k) : FlatCandidate(k, i)
    /\ BoundaryStatic(k)

C2_WholeCurveCollapseDeletes ==
    /\ exists /\ C2_Precondition(keys) => Evaluate(keys).action = "delete"
    /\ FixEvaluated /\ C2_Precondition(evaluated) => fixAction = "delete"

\* C2 witness (scenario A): _fix evaluated four keys on frames 0..3 of one
\* and the same value, all tangents flat and none stepped, and was told
\* "delete".
C2_Witness ==
    /\ fixAction = "delete"
    /\ Len(evaluated) = 4
    /\ \A j \in 1 .. 4 :
          /\ evaluated[j].f = j - 1
          /\ evaluated[j].v = evaluated[1].v
          /\ IsFlat(evaluated[j].ia) /\ IsFlat(evaluated[j].oa)
          /\ evaluated[j].tt # "step"

\* C3: a curve with more than 1 key, at least one removal candidate and no
\* whole-curve collapse is classified "indices", and the list is exactly the
\* candidates of the rule, ascending, without the first and the last key.
C3_Precondition(k) ==
    /\ Len(k) > 1
    /\ RemovalCandidates(k) # {}
    /\ ~Collapses(k)

C3_Conclusion(k, action, indices) ==
    /\ action = "indices"
    /\ SeqToSet(indices) = RemovalCandidates(k)
    /\ Ascending(indices)
    /\ 0 \notin SeqToSet(indices)
    /\ (Len(k) - 1) \notin SeqToSet(indices)

C3_PruneIndicesExact ==
    /\ exists /\ C3_Precondition(keys) =>
          LET r == Evaluate(keys) IN C3_Conclusion(keys, r.action, r.indices)
    /\ FixEvaluated /\ C3_Precondition(evaluated) =>
          C3_Conclusion(evaluated, fixAction, fixIndices)

\* C3 witness: _fix was told to prune two keys, one a candidate by the
\* stepped rule only and one by the flat rule only.
C3_Witness ==
    /\ fixAction = "indices"
    /\ Len(fixIndices) = 2
    /\ \E i, j \in SeqToSet(fixIndices) :
          /\ AllStepped(evaluated, i) /\ ~FlatCandidate(evaluated, i)
          /\ FlatCandidate(evaluated, j) /\ ~AllStepped(evaluated, j)

\* C4 (general part): a curve with more than 1 key, no removal candidate and
\* no collapse is classified "pass" with an empty list and discovery does not
\* report it.
C4_Precondition(k) ==
    /\ Len(k) > 1
    /\ RemovalCandidates(k) = {}
    /\ ~Collapses(k)

C4_NoAction ==
    /\ exists /\ C4_Precondition(keys) =>
          /\ Evaluate(keys) = [action |-> "pass", indices |-> <<>>]
          /\ CleanAnimationFind = <<>>
    /\ FixEvaluated /\ C4_Precondition(evaluated) =>
          fixAction = "pass" /\ fixIndices = <<>>

\* scenario B: three keys, the middle one flat, close to the previous and
\* not close to the next
C4_ScenarioB(k) ==
    /\ Len(k) = 3
    /\ FourFlat(k, 1)
    /\ IsClose(At(k, 0).v, At(k, 1).v)
    /\ ~IsClose(At(k, 2).v, At(k, 1).v)

C4_ScenarioBPasses(k) ==
    /\ Indices(k, DefaultAngle, DefaultSize) = <<>>
    /\ Evaluate(k).action = "pass"
    /\ CleanAnimationFind = <<>>

\* C4 as stated: the general part, and every curve of scenario B has an
\* empty candidate list and is classified "pass".
C4_Original ==
    /\ C4_NoAction
    /\ exists /\ C4_ScenarioB(keys) => C4_ScenarioBPasses(keys)

\* C4 as amended: the general part, and every curve of scenario B whose
\* three out tangents are not all stepped has an empty candidate list and is
\* classified "pass".
C4_Amended ==
    /\ C4_NoAction
    /\ exists /\ C4_ScenarioB(keys) /\ ~AllStepped(keys, 1) =>
          C4_ScenarioBPasses(keys)

\* C4 witness: after a prune left a scenario B curve (values 0.0005, 0,
\* 0.001; the middle key's out tangent is stepped, its neighbours' are not
\* all stepped), a discovery pass has reported nothing.
C4_Witness ==
    /\ pc = "idle"
    /\ fixAction = "indices"
    /\ exists /\ ~referenced /\ ~driven
    /\ C4_ScenarioB(keys)
    /\ keys[1].v = 1 /\ keys[2].v = 0 /\ keys[3].v = DefaultSize
    /\ keys[2].tt = "step" /\ ~AllStepped(keys, 1)
    /\ errors = <<>>

\* C5: a curve with exactly 2 keys is classified "delete" exactly when its
\* values are close and the first out angle and the last in angle are flat,
\* "pass" otherwise, and never "indices".
C5_Conclusion(k, action) ==
    /\ action = "delete" <=> BoundaryStatic(k)
    /\ ~BoundaryStatic(k) => action = "pass"
    /\ action # "indices"

C5_TwoKeys ==
    /\ exists /\ Len(keys) = 2 => C5_Conclusion(keys, Evaluate(keys).action)
    /\ FixEvaluated /\ Len(evaluated) = 2 => C5_Conclusion(evaluated, fixAction)

\* C5 witness: _fix evaluated two stepped keys with close but different
\* values, flat where they face each other, and was told "delete".
C5_Witness ==
    /\ fixAction = "delete"
    /\ Len(evaluated) = 2
    /\ evaluated[1].v # evaluated[2].v
    /\ evaluated[1].tt = "step" /\ evaluated[2].tt = "step"

\* ======================================================================
\* Claims about CleanAnimation._fix
\* ======================================================================
Descending(s) == \A i, j \in 1 .. Len(s) : i < j => s[i] > s[j]

\* the keys of k whose index is not in S, in order
KeysWithout(k, S) ==
    LET kept == SelectSeq(Range(0, Len(k)), LAMBDA i : i \notin S)
    IN  [j \in 1 .. Len(kept) |-> At(k, kept[j])]

PruneRunning == fixAction = "indices"

PruneDone == fixAction = "indices" /\ pc = "idle"

\* C6: the prune removes the candidate keys one at a time in strictly
\* descending index order; at every moment the keys left are the evaluated
\* keys minus the keys the removed indices denoted at evaluation; at the end
\* exactly the candidates are gone and the first and the last key are kept.
C6_PruneDescending ==
    PruneRunning =>
        /\ Descending(cutLog)
        /\ keys = KeysWithout(evaluated, SeqToSet(cutLog))
        /\ pc = "idle" =>
              /\ SeqToSet(cutLog) = SeqToSet(fixIndices)
              /\ keys = KeysWithout(evaluated, RemovalCandidates(evaluated))
              /\ keys[1] = evaluated[1]
              /\ Last(keys) = Last(evaluated)

\* C6 witness: a prune of two keys of a four-key curve has finished.
C6_Witness ==
    /\ PruneDone
    /\ Len(evaluated) = 4
    /\ cutLog = <<2, 1>>
    /\ Len(keys) = 2

\* re-evaluate, remove the lowest candidate, until no candidate remains
RECURSIVE PruneOneByOne(_)
PruneOneByOne(k) ==
    LET indices == Indices(k, DefaultAngle, DefaultSize)
    IN  IF indices = <<>> THEN k ELSE PruneOneByOne(CutKey(k, Head(indices)))

\* C7: when a prune has finished the keys left are the keys that removing
\* the lowest candidate and re-evaluating, until no candidate remains, leaves
\* of the evaluated curve.
C7_OrderInvariance == PruneDone => keys = PruneOneByOne(evaluated)

\* C8: when the remediation of a reported curve has finished ("delete" or
\* "indices"), discovery does not report the curve.
C8_Idempotent ==
    pc = "idle" /\ fixAction \in {"delete", "indices"} =>
        AnimCurve \notin SeqToSet(CleanAnimationFind)

\* C9: in a delete remediation the plugs the curve drives are captured with
\* their values while the curve still exists; once the plugs are reset the
\* curve is gone and every unlocked plug it drove holds the value it had
\* when _fix was called; no locked plug is ever written.
C9_DeleteKeepsValues ==
    fixAction = "delete" =>
        /\ written \cap locked = {}
        /\ pc = "delete" =>
              /\ exists
              /\ {c.p : c \in SeqToSet(todo)} = connected
              /\ \A c \in SeqToSet(todo) : c.a = plugValue[c.p]
        /\ pc \in {"reset", "idle"} => ~exists
        /\ pc = "idle" =>
              \A p \in drove \ locked : plugValue[p] = valueBefore[p]

\* C9 witness: a delete remediation has finished for a curve that drove a
\* locked and an unlocked plug, both at a value other than 0; the unlocked
\* one was written, and the locked one lost its value with the curve.
C9_Witness ==
    /\ fixAction = "delete"
    /\ pc = "idle"
    /\ ~exists
    /\ drove = PlugSet
    /\ \E p, q \in PlugSet :
          /\ p \in locked /\ q \notin locked
          /\ written = {q}
          /\ valueBefore[q] # 0 /\ valueBefore[p] # 0
          /\ plugValue[p] # valueBefore[p]

\* ======================================================================
\* Claims about discovery
\* ======================================================================
\* C10: in every state reached during or after a discovery pass, also of a
\* pass that was dropped before its end or that raised, the scene is the
\* scene the pass began with.
C10_DiscoveryLeavesScene == gen.pc # "none" => Scene = sceneBefore

\* ======================================================================
\* Claims about the checks' contract
\* ======================================================================
\* the part of the scene s that belongs to the error e of check c
StateOfError(c, e, s) ==
    CASE c = "JointsHidden" -> s.dag[e]
      [] c = "NoNamespace" ->
           [exists |-> e \in s.namespaces,
            members |-> {n \in DOMAIN s.nodeNamespace : s.nodeNamespace[n] = e}]

\* C11: after a _fix call on the error e1 of a check, the state of every
\* other error e2 the check had reported is what it was before the call.
C11_FixTouchesOnlyItsError ==
    lastFix.check # "none" =>
        \A e2 \in SeqToSet(lastFix.errors) \ {lastFix.error} :
            StateOfError(lastFix.check, e2, scene)
                = StateOfError(lastFix.check, e2, lastFix.before)

\* C12: no error a discovery pass of a node-listing check has yielded is a
\* referenced node.
C12_NoReferencedError ==
    \A c \in {"JointsHidden", "UVSetMap1", "ComponentAnimation"} :
        \A e \in SeqToSet(discovered[c].errors) :
            e \notin scene.referencedNodes

\* the scene has no controls_SET, or the set is empty, or no curve of its
\* controls has a keyable Arnold attribute
NoArnoldDefect(s) ==
    \/ "controls_SET" \notin DOMAIN s.sets
    \/ s.sets["controls_SET"] = <<>>
    \/ \A c \in DOMAIN s.curveOf :
          s.curveOf[c] \in SeqToSet(s.sets["controls_SET"])
              => ~HasKeyableArnoldAttribute(s, c)

\* C13: a discovery pass over a scene without a defect for the check yields
\* no error and does not raise: ControlSetsArnold without a controls_SET,
\* with an empty one or without a keyable Arnold attribute on a control
\* curve, NoNamespace without a namespace.
C13_NoDefectNoError ==
    /\ NoArnoldDefect(scene)
           => /\ discovered["ControlSetsArnold"].errors = <<>>
              /\ ~discovered["ControlSetsArnold"].raised
    /\ scene.namespaces = {}
           => /\ discovered["NoNamespace"].errors = <<>>
              /\ ~discovered["NoNamespace"].raised

\* C14: the name, message, categories, selectable flag and urgency of every
\* check are what they were when its constructor returned.
C14_MetadataFixed == \A c \in Checks : meta[c] = Constructed(c)

\* C14 as amended: the name, categories, selectable flag and urgency of
\* every check, and the message of every check but SingleCamera, are what
\* they were when the constructor returned; the message of SingleCamera
\* is that one or the one its discovery pass sets: "no renderable camera
\* found" when the pass found no camera, "{0} renderable cameras" otherwise.
C14_MetadataFixedButMessage ==
    /\ \A c \in Checks :
          /\ meta[c].name = Constructed(c).name
          /\ meta[c].categories = Constructed(c).categories
          /\ meta[c].selectable = Constructed(c).selectable
          /\ meta[c].urgency = Constructed(c).urgency
          /\ c # "SingleCamera" => meta[c].message = Constructed(c).message
    /\ meta["SingleCamera"].message \in
          {Constructed("SingleCamera").message,
           IF scene.cameras = <<>> /\ ~discovered["SingleCamera"].raised
           THEN "no renderable camera found"
           ELSE "{0} renderable cameras"}

\* a pass of SingleCamera has run in a scene with one camera
C14_Witness ==
    /\ ~discovered["SingleCamera"].raised
    /\ Len(scene.cameras) = 1
    /\ meta["SingleCamera"].message # Constructed("SingleCamera").message

\* C19: once show() has run, the window was built and its collection is the
\* value of AVALON_TASK when that names a known collection, and the
\* caller's collection in every other case.
C19_DefaultCollection ==
    window.outcome \notin {"no call", "called"} =>
        window.outcome =
            IF window.environ \in SeqToSet(getCollectionsCategories)
            THEN window.environ ELSE window.collection

\* the suffixes allowed for a shape type, none for a type out of the table
AllowedSuffixes(shape) ==
    CASE shape = "mesh" -> {"_GEO", "_GES", "_GEP", "_OSD"}
      [] shape = "nurbsCurve" -> {"_CRV"}
      [] shape = "nurbsSurface" -> {"_NRB"}
      [] shape = "locator" -> {"_LOC"}
      [] shape = "None" -> {"_GRP"}
      [] OTHER -> {}

\* the transform should be reported: it is selected, its shape type is in
\* the table and its name ends with none of the allowed suffixes
WrongSuffix(s, t) ==
    /\ s.transforms[t].selected
    /\ AllowedSuffixes(s.transforms[t].shape) # {}
    /\ \A x \in AllowedSuffixes(s.transforms[t].shape) :
          Upper(s.transforms[t].tail) # x

\* C20: a discovery pass of TransformSuffix leaves a transform among the
\* errors if and only if it is selected, its shape type is in the table and
\* its name ends, in any case, with none of the suffixes of that type.
C20_SuffixReported ==
    [][TransformSuffixFind =>
          \A t \in DOMAIN scene.transforms :
              (t \in SeqToSet(discovered'["TransformSuffix"].errors))
                  <=> WrongSuffix(scene, t)]_vars
\* ======================================================================
\* Claims about the runner
\* ======================================================================
\* the calls of the last batch on check c
CallsOn(c) == SelectSeq(run.calls, LAMBDA k : k.check = c)

\* how often check c is in the list the runner was given
Occurrences(c) == Len(SelectSeq(run.checks, LAMBDA x : x = c))

\* error is one of errs
Lists(errs, error) == \E j \in 1 .. Len(errs) : errs[j] = error

\* C15: failure isolation in discovery. When runDiscovery has been given an
\* ordered list of checks, the list it returns has one entry for each check,
\* in the input order, and the entry of every check whose discover() did not
\* raise holds that check's own Errors, whichever other checks raised.
C15_FailureIsolation ==
    run.op = "runDiscovery" =>
        /\ Len(run.results) = Len(run.checks)
        /\ \A i \in 1 .. Len(run.checks) :
              /\ run.results[i].check = run.checks[i]
              /\ ~discover(run.checks[i], World).raised =>
                    /\ ~run.results[i].failed
                    /\ run.results[i].errors =
                           discover(run.checks[i], World).errors

\* a discover() raised and a later check of the list has reported Errors
C15_Witness ==
    /\ run.op = "runDiscovery"
    /\ \E i \in 1 .. Len(run.results) : \E j \in 1 .. Len(run.results) :
          /\ i < j
          /\ run.results[i].failed
          /\ run.results[j].errors # <<>>

\* C16: bulk remediation. For a check that is not selectable and has n
\* outstanding Errors runRemediation calls remediation for all n of them
\* whatever the selection is; for a selectable check it calls remediation
\* for the Errors of the selection only, and a selectable check without a
\* selected Error is not touched: no call, no re-discovery.
C16_BulkRemediation ==
    run.op = "runRemediation" =>
        \A c \in SeqToSet(run.checks) :
            LET out == run.outstanding[c].errors
                calls == CallsOn(c)
            IN  IF ~Constructed(c).selectable
                THEN /\ Len(calls) = Occurrences(c) * Len(out)
                     /\ \A j \in 1 .. Len(out) :
                           \E k \in 1 .. Len(calls) : calls[k].error = out[j]
                ELSE /\ \A k \in 1 .. Len(calls) :
                           calls[k].error \in run.selection[c]
                     /\ \A j \in 1 .. Len(out) :
                           out[j] \in run.selection[c] =>
                               \E k \in 1 .. Len(calls) :
                                   calls[k].error = out[j]
                     /\ (\A j \in 1 .. Len(out) :
                            out[j] \notin run.selection[c]) =>
                           /\ calls = <<>>
                           /\ ~Lists(run.touched, c)
                           /\ discovered[c] = run.outstanding[c]

\* the selection is empty, the three Errors of NoNamespace have all been
\* remediated and Subdivision, with an Error outstanding, was left alone
C16_Witness ==
    /\ run.op = "runRemediation"
    /\ \A c \in RunnerChecks : run.selection[c] = {}
    /\ Len(run.outstanding["NoNamespace"].errors) = 3
    /\ Len(CallsOn("NoNamespace")) = 3
    /\ run.outstanding["Subdivision"].errors # <<>>
    /\ ~Lists(run.touched, "Subdivision")

\* C17: a failed remediation leaves its Error listed. When the _fix of a
\* check raised on an Error that was a defect of the scene at the time of
\* the call, the re-discovery at the end of the batch still lists that Error.
C17_FailedFixStillListed ==
    run.op = "runRemediation" =>
        \A k \in 1 .. Len(run.calls) :
            LET call == run.calls[k] IN
            (/\ call.raised
             /\ Lists(discover(call.check, call.before).errors, call.error))
                => Lists(discovered[call.check].errors, call.error)

\* the node of the call is gone, or its curve needs no action
Stale(call) ==
    /\ call.check \in {"CleanAnimation", "NotConnectedAnimation"}
    /\ \/ ~call.before.exists
       \/ /\ call.check = "CleanAnimation"
          /\ Evaluate(call.before.keys).action = "pass"

\* the calls runRemediation makes from check i of the list on when none of
\* them ends the batch
RECURSIVE CallsDue(_)
CallsDue(i) ==
    IF i > Len(run.checks) THEN 0
    ELSE Len(TargetedSelected(run.checks[i],
                              run.outstanding[run.checks[i]].errors,
                              [c \in RunnerChecks |->
                                  IF Constructed(c).selectable
                                  THEN run.selection[c]
                                  ELSE SeqToSet(run.outstanding[c].errors)]))
         + CallsDue(i + 1)

\* C18: remediation is safe on stale handles. A CleanAnimation remediation
\* of a curve that needs no action any more changes nothing and does not
\* fail; a remediation of a curve that has been deleted changes nothing; and
\* the batch goes on: every remediation due in the batch has been called.
C18_StaleHandlesSafe ==
    run.op = "runRemediation" =>
        /\ \A k \in 1 .. Len(run.calls) :
              Stale(run.calls[k]) =>
                  /\ run.calls[k].after = run.calls[k].before
                  /\ run.calls[k].before.exists => ~run.calls[k].raised
        /\ Len(run.calls) = CallsDue(1)

\* an earlier remediation of the batch has deleted the curve, a remediation
\* has been called on it and another call has followed
C18_Witness ==
    /\ run.op = "runRemediation"
    /\ \E k \in 1 .. Len(run.calls) :
          /\ k > 1
          /\ k < Len(run.calls)
          /\ run.calls[1].before.exists
          /\ ~run.calls[k].before.exists
          /\ Stale(run.calls[k])

\* ======================================================================
\* Claims about single checks and the collections
\* ======================================================================
\* the node is hidden by the rules of the docstring of is_visible: it does
\* not exist, its visibility is off, a display layer hides it (override
\* enabled, override visibility off), or its parent is hidden
RECURSIVE HiddenByRule(_, _)
HiddenByRule(s, node) ==
    \/ node \notin DOMAIN s.dag
    \/ ~s.dag[node].visibility
    \/ s.dag[node].overrideEnabled /\ ~s.dag[node].overrideVisibility
    \/ /\ listRelativesParent(node) # <<>>
       /\ HiddenByRule(s, listRelativesParent(node)[1])

\* C22: is_visible is False for a node of the hierarchy exactly when the
\* node is hidden by one of the rules or an ancestor is, and JointsHidden
\* discovery yields a joint exactly when is_visible is True for it.
C22_VisibleByRules ==
    /\ \A node \in DOMAIN scene.dag :
          is_visible(scene, node, TRUE, TRUE, TRUE, TRUE)
              <=> ~HiddenByRule(scene, node)
    /\ \A joint \in SeqToSet(lsJoints(scene)) :
          Lists(JointsHiddenErrors(scene), joint)
              <=> is_visible(scene, joint, TRUE, TRUE, TRUE, TRUE)

\* namespace inner is nested in namespace outer
NestedIn(inner, outer) == ParentNamespace(inner) = outer

\* C25: a NoNamespace discovery pass yields exactly the namespaces of the
\* scene besides UI and shared and does not raise; _fix removes the nested
\* namespaces before the namespaces that hold them and leaves no namespace
\* besides UI and shared, every node in the root namespace and nothing for
\* a following discovery pass to yield.
C25_NamespacesRemoved ==
    /\ [](/\ SeqToSet(NoNamespaceErrors(scene)) = scene.namespaces
          /\ Len(NoNamespaceErrors(scene)) = Cardinality(scene.namespaces))
    /\ [][/\ NoNamespaceFind =>
               /\ discovered'["NoNamespace"].errors = NoNamespaceErrors(scene)
               /\ ~discovered'["NoNamespace"].raised
         /\ NoNamespaceFix =>
               /\ LET order == SortedChildFirst(SelectSeq(namespaceInfo(scene),
                                    LAMBDA n : n \notin {"UI", "shared"}))
                  IN  /\ SeqToSet(order) = scene.namespaces
                      /\ \A i \in 1 .. Len(order) : \A j \in 1 .. Len(order) :
                            i < j => ~NestedIn(order[j], order[i])
               /\ scene'.namespaces = {}
               /\ \A n \in DOMAIN scene'.nodeNamespace :
                     scene'.nodeNamespace[n] = ""
               /\ NoNamespaceErrors(scene') = <<>>]_vars

\* _fix has removed a namespace nested in another and the namespace that
\* held it
C25_Witness ==
    /\ lastFix.check = "NoNamespace"
    /\ {"char", "char:rig"} \subseteq lastFix.before.namespaces
    /\ \E n \in DOMAIN lastFix.before.nodeNamespace :
          lastFix.before.nodeNamespace[n] = "char:rig"
    /\ scene.namespaces = {}

\* C28: every category a check declares is in the category sequence of a
\* collection, and no collection lists a category twice.
C28_CategoriesReachable ==
    /\ \A c \in Checks : \A cat \in SeqToSet(meta[c].categories) :
          \E name \in DOMAIN COLLECTION : cat \in SeqToSet(COLLECTION[name])
    /\ \A name \in DOMAIN COLLECTION :
          \A i \in 1 .. Len(COLLECTION[name]) :
              \A j \in 1 .. Len(COLLECTION[name]) :
                  i # j => COLLECTION[name][i] # COLLECTION[name][j]

\* ----------------------------------------------------------------------
\* Claims about the checks of Part 5
\* ----------------------------------------------------------------------
\* at least one of the nine attributes of the transform differs from its
\* frozen value: 0 for translate and rotate, 1 for scale
Unfrozen(s, transform) ==
    \E n \in TransformAttributes :
        s.attrs[transform][n] # (IF n \in {"sx", "sy", "sz"} THEN 1 ELSE 0)

\* C21: a discovery pass of FreezeTransforms lists a transform that is not
\* referenced and not in the ignore list if and only if at least one of its
\* nine transform attributes is unfrozen.
C21_UnfrozenReported ==
    \A t \in DOMAIN scene.attrs :
        (t \notin scene.referencedNodes /\ t \notin SeqToSet(ignoreNodes))
        => (Lists(FreezeTransformsErrors(scene), t) <=> Unfrozen(scene, t))

\* C23: ValidateDisplacement yields an Error exactly when the
\* ignoreDisplacement attribute of the Arnold render options is 1, and _fix
\* leaves the attribute at 0 with nothing for the following discovery pass
\* to yield.
C23_DisplacementRestored ==
    /\ [](ValidateDisplacementErrors(scene) # <<>>
             <=> scene.ignoreDisplacement = 1)
    /\ [][ValidateDisplacementFix =>
             /\ scene'.ignoreDisplacement = 0
             /\ ValidateDisplacementErrors(scene') = <<>>]_vars

\* the adjustments of the layer whose outPlug is connected to destination
ConnectedTo(s, layer, destination) ==
    {j \in 1 .. Len(s.outAdjustments[layer]) :
        s.outAdjustments[layer][j].plug = destination}

\* the scene plugs an adjustment can be connected to
Destinations == {"pCubeShape1.instObjGroups", "pBallShape1.instObjGroups"}

\* C24: when _fix is called on every Error of one DuplicateAdjustments
\* discovery pass in order, a call that raises not stopping the calls after
\* it, every destination plug that several adjustments of a render layer
\* shared keeps exactly one adjustment connected, an adjustment that alone
\* had its destination is left as it was, and the following discovery pass
\* yields nothing.
C24_OneAdjustmentLeft ==
    [][(/\ DuplicateAdjustmentsFixAll
        /\ discovered["DuplicateAdjustments"].errors
               = DuplicateAdjustmentsErrors(scene))
       => /\ \A layer \in SeqToSet(removeReferencedNodes(lsRenderLayers(scene),
                                                         scene)) :
             \A d \in Destinations :
                /\ Cardinality(ConnectedTo(scene, layer, d)) >= 2
                      => Cardinality(ConnectedTo(scene', layer, d)) = 1
                /\ Cardinality(ConnectedTo(scene, layer, d)) = 1
                      => \A j \in ConnectedTo(scene, layer, d) :
                            scene'.outAdjustments[layer][j]
                                = scene.outAdjustments[layer][j]
          /\ DuplicateAdjustmentsErrors(scene') = <<>>]_vars

\* three adjustments shared a destination, the first of them with no
\* destination on its outValue, and one of the three is left connected
C24_Witness ==
    /\ lastFix.check = "DuplicateAdjustments"
    /\ lastFix.errors = DuplicateAdjustmentsErrors(lastFix.before)
    /\ Len(lastFix.errors) = 3
    /\ \E d \in Destinations :
          /\ Cardinality(ConnectedTo(lastFix.before, "layer1", d)) = 3
          /\ lastFix.before.outAdjustments["layer1"][1].values = 0
          /\ Cardinality(ConnectedTo(scene, "layer1", d)) = 1

\* the N of the name mapN a UV set named map1 has to take: the smallest
\* N >= 2 with no UV set of the mesh named mapN
SmallestUnused(uv) ==
    CHOOSE n \in 2 .. 9 :
        /\ MapName(n) \notin UVSetNames(uv)
        /\ \A m \in 2 .. (n - 1) : MapName(m) \in UVSetNames(uv)

\* C26: _fix of UVSetMap1, called on a mesh whose UV set of index 0 is not
\* named map1, ends without raising and leaves the mesh with as many UV sets
\* as before, of the same indices and of distinct names, the set of index 0
\* named map1, a set that was named map1 renamed to mapN for the smallest
\* N >= 2 no set of the mesh had, every other set with its name; the
\* following discovery pass does not yield the mesh.
C26_DefaultSetRenamed ==
    [][\A mesh \in DOMAIN scene.uvSets :
         (/\ UVSetMap1Fix
          /\ lastFix'.error = mesh
          /\ HasIndexZero(scene.uvSets[mesh])
          /\ NameAtZero(scene.uvSets[mesh]) # "map1")
         => LET old == scene.uvSets[mesh]
                new == scene'.uvSets[mesh]
            IN  /\ ~lastFix'.raised
                /\ Len(new) = Len(old)
                /\ \A i \in 1 .. Len(new) : \A j \in 1 .. Len(new) :
                      i # j => new[i].name # new[j].name
                /\ NameAtZero(new) = "map1"
                /\ \A j \in 1 .. Len(old) :
                      /\ new[j].index = old[j].index
                      /\ new[j].name =
                            IF old[j].index = 0 THEN "map1"
                            ELSE IF old[j].name = "map1"
                                 THEN MapName(SmallestUnused(old))
                                 ELSE old[j].name
                /\ ~Lists(UVSetMap1Result(scene').errors, mesh)]_vars

\* _fix has renamed a UV set named map1, of another index than 0, to map4
\* because the mesh had sets named map2 and map3, and the set of index 0
\* to map1
C26_Witness ==
    /\ lastFix.check = "UVSetMap1"
    /\ ~lastFix.raised
    /\ lastFix.error \in DOMAIN lastFix.before.uvSets
    /\ LET old == lastFix.before.uvSets[lastFix.error]
           new == scene.uvSets[lastFix.error]
       IN  /\ Len(old) = 3
           /\ NameAtZero(old) = "map2"
           /\ \E j \in 1 .. Len(old) :
                 old[j].name = "map1" /\ new[j].name = "map4"
           /\ NameAtZero(new) = "map1"

\* C27: the Errors of one discovery pass of a check are distinct handles: a
\* FreezeTransforms pass lists an unfrozen transform once and a
\* DuplicateAdjustments pass lists a superfluous adjustment once.
C27_HandlesDistinct ==
    \A c \in Checks :
        \A i \in 1 .. Len(discovered[c].errors) :
            \A j \in 1 .. Len(discovered[c].errors) :
                i # j => discovered[c].errors[i] # discovered[c].errors[j]

=============================================================================
